---- MODULE Spec2Model ----
(***************************************************************************)
(* A model of the bedtime-story generator: the generate -> judge -> revise *)
(* loop of StoryOrchestrator, the StoryJudge and StoryCategorizer response *)
(* parsing, the retry decorator, Storyteller.generate_story, the           *)
(* guardrails, the SQLite-backed StoryStorage, and the command-line entry  *)
(* point main() with generate_with_user_feedback.                          *)
(*                                                                         *)
(* External collaborators (the LLM API, the guardrail's LLM verdict) are   *)
(* nondeterministic inputs; everything the repository computes from their  *)
(* answers is computed here as the code computes it.                       *)
(***************************************************************************)
EXTENDS Integers, Sequences, FiniteSets, TLC

VARIABLES
    \* ---- StoryOrchestrator.generate_story_with_judge (src/orchestrator.py)
    pc,                 \* position inside generate_story_with_judge
    cfg,                \* the configuration the orchestrator was built with
    user_request,       \* the argument of the call
    variety_config,     \* local variety_config (line 35)
    result,             \* local result: the last pre-loop generate_story result
    story,              \* local story
    revision_count,     \* local revision_count
    evaluation,         \* local evaluation: the last in-loop evaluate_story result
    final_validation,   \* local final_validation
    final_result,       \* the dict returned
    trace,              \* history of the call: counters and how the loop ended
    \* ---- StoryStorage (src/story_storage.py)
    db,                 \* the stories database
    saved,              \* history: the dicts saved under each id, not deleted
    \* ---- one call of an operation, for the operations checked on their own
    \* ---- and for main()
    call,               \* the operation called and its arguments
    ret                 \* what the call returned

vars == <<pc, cfg, user_request, variety_config, result, story, revision_count,
          evaluation, final_validation, final_result, trace, db, saved,
          call, ret>>

orchVars == <<pc, cfg, user_request, variety_config, result, story, revision_count,
              evaluation, final_validation, final_result, trace>>

orchLocals == <<pc, cfg, user_request, variety_config, result, story, revision_count,
                evaluation, final_validation, final_result>>

(***************************************************************************)
(* Values.  A Python/JSON value is a tagged record [t, v]: TLC compares    *)
(* records field by field in name order, so values of different tags       *)
(* compare unequal without comparing their payloads.                       *)
(***************************************************************************)
None == [t |-> "null", v |-> 0]
Bool(b) == [t |-> "bool", v |-> b]
Num(n) == [t |-> "num", v |-> n]
Str(s) == [t |-> "str", v |-> s]
List(items) == [t |-> "list", v |-> items]
Dict(pairs) == [t |-> "dict", v |-> pairs]

\* dict.get(key, default) on a dict value: the value of the LAST pair with the
\* key (json.loads keeps the last duplicate), else the default.
RECURSIVE GetFrom(_, _, _, _)
GetFrom(pairs, i, key, default) ==
    IF i = 0 THEN default
    ELSE IF pairs[i][1] = key THEN pairs[i][2]
    ELSE GetFrom(pairs, i - 1, key, default)

Get(d, key, default) == GetFrom(d.v, Len(d.v), key, default)

(* JSON text is a sequence of tokens.                                      *)
(***************************************************************************)
P(c) == [t |-> "p", v |-> c]          \* punctuation { } [ ] , :
S(s) == [t |-> "s", v |-> s]          \* a string literal
N(n) == [t |-> "n", v |-> n]          \* a number literal
W(w) == [t |-> "w", v |-> w]          \* true / false / null
X(x) == [t |-> "x", v |-> x]          \* any other text (not JSON)

\* json.dumps
RECURSIVE Dumps(_), DumpItems(_, _), DumpPairs(_, _)
Dumps(val) ==
    CASE val.t = "null" -> <<W("null")>>
      [] val.t = "bool" -> <<W(IF val.v THEN "true" ELSE "false")>>
      [] val.t = "num"  -> <<N(val.v)>>
      [] val.t = "str"  -> <<S(val.v)>>
      [] val.t = "list" -> <<P("[")>> \o DumpItems(val.v, 1) \o <<P("]")>>
      [] val.t = "dict" -> <<P("{")>> \o DumpPairs(val.v, 1) \o <<P("}")>>

DumpItems(items, i) ==
    IF i > Len(items) THEN <<>>
    ELSE Dumps(items[i])
         \o (IF i < Len(items) THEN <<P(",")>> ELSE <<>>)
         \o DumpItems(items, i + 1)

DumpPairs(pairs, i) ==
    IF i > Len(pairs) THEN <<>>
    ELSE <<S(pairs[i][1]), P(":")>> \o Dumps(pairs[i][2])
         \o (IF i < Len(pairs) THEN <<P(",")>> ELSE <<>>)
         \o DumpPairs(pairs, i + 1)

\* json.loads: a recursive-descent parser.  Each parser returns
\* [ok, val, rest]; ok = FALSE is json.JSONDecodeError.
ParseFail == [ok |-> FALSE, val |-> None, rest |-> <<>>]
ParseOk(val, rest) == [ok |-> TRUE, val |-> val, rest |-> rest]

RECURSIVE ParseValue(_), ParseItems(_, _), ParseMembers(_, _)
ParseValue(toks) ==
    IF toks = <<>> THEN ParseFail
    ELSE LET tok == Head(toks)
             rest == Tail(toks)
         IN CASE tok.t = "s" -> ParseOk(Str(tok.v), rest)
              [] tok.t = "n" -> ParseOk(Num(tok.v), rest)
              [] tok.t = "w" ->
                    IF tok.v = "null" THEN ParseOk(None, rest)
                    ELSE ParseOk(Bool(tok.v = "true"), rest)
              [] tok.t = "x" -> ParseFail
              [] tok.t = "p" ->
                    IF tok.v = "[" THEN
                        IF rest # <<>> /\ Head(rest) = P("]")
                        THEN ParseOk(List(<<>>), Tail(rest))
                        ELSE ParseItems(rest, <<>>)
                    ELSE IF tok.v = "{" THEN
                        IF rest # <<>> /\ Head(rest) = P("}")
                        THEN ParseOk(Dict(<<>>), Tail(rest))
                        ELSE ParseMembers(rest, <<>>)
                    ELSE ParseFail

\* the elements of a list, after "[" (at least one element)
ParseItems(toks, acc) ==
    LET r == ParseValue(toks)
    IN IF ~r.ok \/ r.rest = <<>> THEN ParseFail
       ELSE IF Head(r.rest) = P("]")
            THEN ParseOk(List(Append(acc, r.val)), Tail(r.rest))
       ELSE IF Head(r.rest) = P(",")
            THEN ParseItems(Tail(r.rest), Append(acc, r.val))
       ELSE ParseFail

\* the members of an object, after "{" (at least one member)
ParseMembers(toks, acc) ==
    IF Len(toks) < 3 \/ toks[1].t # "s" \/ toks[2] # P(":") THEN ParseFail
    ELSE LET r == ParseValue(SubSeq(toks, 3, Len(toks)))
             pair == <<toks[1].v, r.val>>
         IN IF ~r.ok \/ r.rest = <<>> THEN ParseFail
            ELSE IF Head(r.rest) = P("}")
                 THEN ParseOk(Dict(Append(acc, pair)), Tail(r.rest))
            ELSE IF Head(r.rest) = P(",")
                 THEN ParseMembers(Tail(r.rest), Append(acc, pair))
            ELSE ParseFail

\* json.loads accepts a text that is one value and nothing more
WholeText(parsed) ==
    IF parsed.ok /\ parsed.rest = <<>> THEN [ok |-> TRUE, val |-> parsed.val]
    ELSE [ok |-> FALSE, val |-> None]

Loads(toks) == WholeText(ParseValue(toks))

(***************************************************************************)
(* utils.safe_parse_json: re.search for a brace pair that holds no brace   *)
(* other than complete inner pairs (one level of nesting), then json.loads *)
(* of the match.  At every position of the pattern the next brace decides  *)
(* the step, so the match from a given opening brace is unique: depth 1 is *)
(* inside the outer braces, depth 2 inside an inner pair.                  *)
(***************************************************************************)
RECURSIVE RegexScan(_, _, _)
RegexScan(toks, j, depth) ==        \* index of the closing "}" or 0
    IF j > Len(toks) THEN 0
    ELSE IF toks[j] = P("{") THEN
            (IF depth = 1 THEN RegexScan(toks, j + 1, 2) ELSE 0)
    ELSE IF toks[j] = P("}") THEN
            (IF depth = 2 THEN RegexScan(toks, j + 1, 1) ELSE j)
    ELSE RegexScan(toks, j + 1, depth)

RegexStarts(toks) ==
    {i \in 1..Len(toks) : toks[i] = P("{") /\ RegexScan(toks, i + 1, 1) # 0}

Min(set) == CHOOSE x \in set : \A y \in set : x <= y

\* lines 142-145: json.loads of the match, the fallback on JSONDecodeError
LoadsOr(loaded, fallback) == IF loaded.ok THEN loaded.val ELSE fallback

\* lines 140-143, given the positions where the pattern matches
ParseMatch(text, starts, fallback) ==
    IF starts = {} THEN fallback
    ELSE LoadsOr(Loads(SubSeq(text, Min(starts), RegexScan(text, Min(starts) + 1, 1))),
                 fallback)

safe_parse_json(text, fallback) == ParseMatch(text, RegexStarts(text), fallback)

(***************************************************************************)
(* Exceptions and call outcomes.                                           *)
(***************************************************************************)
Exc(type, msg) == [type |-> type, msg |-> msg]
NoExc == Exc("none", "")

Ok(val) == [ok |-> TRUE, val |-> val, exc |-> NoExc]
Raise(exc) == [ok |-> FALSE, val |-> None, exc |-> exc]

\* The exception classes the retry decorator names (src/utils.py:106).
TransientTypes == {"RateLimitError", "APIConnectionError", "APITimeoutError"}

\* What one API attempt can do: raise, or answer with a message content
\* (<<>> is a missing or empty content).
ApiRaise(exc) == [kind |-> "raise", exc |-> exc, content |-> <<>>]
ApiContent(content) == [kind |-> "content", exc |-> NoExc, content |-> content]

(***************************************************************************)
(* utils.retry_with_backoff(max_attempts): tenacity's retry with           *)
(* stop_after_attempt(max_attempts), retry_if_exception_type(transient),   *)
(* reraise=True.  func_results[k] is what the wrapped function does on its *)
(* k-th invocation.  Returns the outcome and the number of invocations.    *)
(***************************************************************************)
\* a retry loop that retries after every exception, transient or not
RECURSIVE RetryEveryError(_, _, _)
RetryEveryError(max_attempts, func_results, attempt) ==
    IF func_results[attempt].ok \/ attempt >= max_attempts
    THEN [out |-> func_results[attempt], calls |-> attempt]
    ELSE RetryEveryError(max_attempts, func_results, attempt + 1)

RECURSIVE RetryFrom(_, _, _)
RetryFrom(max_attempts, func_results, attempt) ==
    LET r == func_results[attempt]
    IN IF r.ok THEN [out |-> r, calls |-> attempt]
       ELSE IF r.exc.type \notin TransientTypes
            THEN [out |-> r, calls |-> attempt]          \* not retried
       ELSE IF attempt >= max_attempts
            THEN [out |-> r, calls |-> attempt]          \* reraise=True
       ELSE RetryFrom(max_attempts, func_results, attempt + 1)

retry_with_backoff(max_attempts, func_results) ==
    RetryFrom(max_attempts, func_results, 1)

(***************************************************************************)
(* Texts.  A story or a request is a sequence of words; " " is a word of   *)
(* white space only.                                                       *)
(***************************************************************************)
Strip(text) == SelectSeq(text, LAMBDA w : w # " ")

\* Python's "not story or not story.strip()"
IsBlank(text) == text = <<>> \/ Strip(text) = <<>>

\* One invocation of an API wrapper's body (judge.py:76-90,
\* categorizer.py:26-40): the client call, then the empty-response check.
CallApiOnce(att) ==
    IF att.kind = "raise" THEN Raise(att.exc)
    ELSE IF att.content = <<>>
         THEN Raise(Exc("ValueError", "Empty response from API"))
    ELSE Ok(att.content)

CallApiEach(attempts) == [k \in 1..Len(attempts) |-> CallApiOnce(attempts[k])]

(***************************************************************************)
(* StoryJudge (src/judge.py)                                               *)
(***************************************************************************)
JudgeMaxAttempts == 3

\* _call_judge_api under @retry_with_backoff(max_attempts=3)
_call_judge_api(attempts) == retry_with_backoff(JudgeMaxAttempts, CallApiEach(attempts))

\* str.upper() on the verdict strings the model uses
Upper(s) ==
    CASE s \in {"accept", "Accept", "ACCEPT"} -> "ACCEPT"
      [] s \in {"revise", "Revise", "REVISE"} -> "REVISE"
      [] s = "maybe" -> "MAYBE"
      [] OTHER -> s

\* isinstance(x, (int, float)): bool is a subclass of int in Python.
IsIntOrFloat(x) == x.t \in {"num", "bool"}

\* the numeric value of an int, float or bool (True is 1, False is 0)
NumValue(x) == IF x.t = "bool" THEN (IF x.v THEN 1 ELSE 0) ELSE x.v

\* The f-string of lines 134-145, and the two error texts.
DetailedFeedback(overall_score, feedback, verdict) ==
    [kind |-> "evaluation", overall |-> overall_score, verdict |-> verdict,
     works |-> Get(feedback, "what_works_well", Str("N/A")),
     suggestions |-> Get(feedback, "suggestions_for_improvement", Str("N/A")),
     text |-> ""]

ErrorFeedback(text) ==
    [kind |-> "error", overall |-> None, verdict |-> "ERROR",
     works |-> None, suggestions |-> None, text |-> text]

AttributeError(what) == Exc("AttributeError", what)

\* lines 112-116: json.loads, and safe_parse_json on JSONDecodeError
EvaluationData(judge_response, loaded) ==
    IF loaded.ok THEN loaded.val ELSE safe_parse_json(judge_response, Dict(<<>>))

\* lines 123-125
OverallScore(got) == IF ~IsIntOrFloat(got) THEN Num(0) ELSE got

\* lines 128-131
Verdict(verdict_str, overall_score, min_score) ==
    IF verdict_str = "ACCEPT" \/ NumValue(overall_score) >= min_score
    THEN "ACCEPT" ELSE "REVISE"

\* lines 147-154
EvaluationResult(overall_score, verdict, feedback, min_score) ==
    [verdict |-> verdict,
     overall_score |-> NumValue(overall_score),            \* float(overall_score)
     detailed_feedback |-> DetailedFeedback(overall_score, feedback, verdict),
     meets_threshold |-> NumValue(overall_score) >= min_score,
     error |-> ""]

\* lines 123-154, given scores (a dict) and the upper-cased verdict
EvaluateScore(overall_score, verdict_str, feedback, min_score) ==
    IF feedback.t # "dict"
    THEN Raise(AttributeError("feedback has no attribute 'get'"))
    ELSE Ok(EvaluationResult(overall_score,
                             Verdict(verdict_str, overall_score, min_score),
                             feedback, min_score))

\* lines 119-125: .get on the parsed fields
EvaluateFields(scores, feedback, verdict_val, min_score) ==
    IF verdict_val.t # "str"
    THEN Raise(AttributeError("verdict has no attribute 'upper'"))
    ELSE IF scores.t # "dict"
    THEN Raise(AttributeError("scores has no attribute 'get'"))
    ELSE EvaluateScore(OverallScore(Get(scores, "overall", Num(0))),
                       Upper(verdict_val.v), feedback, min_score)

\* lines 119-154, given evaluation_data
EvaluateData(evaluation_data, min_score) ==
    IF evaluation_data.t # "dict"
    THEN Raise(AttributeError("evaluation_data has no attribute 'get'"))
    ELSE EvaluateFields(Get(evaluation_data, "scores", Dict(<<>>)),
                        Get(evaluation_data, "feedback", Dict(<<>>)),
                        Get(evaluation_data, "verdict", Str("REVISE")),
                        min_score)

\* evaluate_story, lines 111-154: from the response text to the result dict.
EvaluateParsed(judge_response, min_score) ==
    EvaluateData(EvaluationData(judge_response, Loads(judge_response)), min_score)

\* an error dict that counts as an acceptance
EvaluationErrorAccepting(feedback_text, error_text) ==
    [verdict |-> "ERROR", overall_score |-> 0,
     detailed_feedback |-> ErrorFeedback(feedback_text),
     meets_threshold |-> TRUE, error |-> error_text]

\* the dict of lines 157-163 (and 98-104)
EvaluationError(feedback_text, error_text) ==
    [verdict |-> "ERROR", overall_score |-> 0,
     detailed_feedback |-> ErrorFeedback(feedback_text),
     meets_threshold |-> FALSE, error |-> error_text]

\* lines 109-154, given the outcome of _call_judge_api
EvaluateResponse(api, min_score) ==
    IF api.ok THEN EvaluateParsed(api.val, min_score) ELSE api

\* the try block of evaluate_story, lines 108-154
EvaluateTry(min_score, attempts) ==
    EvaluateResponse(_call_judge_api(attempts).out, min_score)

\* the except clause of lines 156-163
EvaluateExcept(tried) ==
    IF tried.ok THEN tried
    ELSE Ok(EvaluationError(tried.exc.msg, tried.exc.msg))

\* StoryJudge.evaluate_story(story, user_request): the outcome of the call.
evaluate_story(story_text, min_score, attempts) ==
    IF IsBlank(story_text)
    THEN Ok(EvaluationError("Empty story provided for evaluation", "Empty story"))
    ELSE EvaluateExcept(EvaluateTry(min_score, attempts))

\* the judge API calls one evaluate_story call makes: none for an empty
\* story (lines 97-104)
JudgeApiCalls(story_text, attempts) ==
    IF IsBlank(story_text) THEN 0 ELSE _call_judge_api(attempts).calls

(***************************************************************************)
(* Python truthiness and list concatenation on values.                     *)
(***************************************************************************)
Truthy(x) ==
    CASE x.t = "null" -> FALSE
      [] x.t = "bool" -> x.v
      [] x.t = "num"  -> x.v # 0
      [] x.t = "str"  -> x.v # ""
      [] x.t = "list" -> x.v # <<>>
      [] x.t = "dict" -> x.v # <<>>

\* "a and b": a when a is falsy, else b
And(a, b) == IF Truthy(a) THEN b ELSE a

\* "a + b" on JSON values: two lists concatenate, two strings concatenate,
\* two numbers (bools count as numbers) add; every other pair is a TypeError.
Plus(a, b) ==
    IF a.t = "list" /\ b.t = "list" THEN Ok(List(a.v \o b.v))
    ELSE IF a.t = "str" /\ b.t = "str" THEN Ok(Str(a.v \o b.v))
    ELSE IF IsIntOrFloat(a) /\ IsIntOrFloat(b) THEN Ok(Num(NumValue(a) + NumValue(b)))
    ELSE Raise(Exc("TypeError", "unsupported operand type(s) for +"))

StrList(words) == List([i \in 1..Len(words) |-> Str(words[i])])

(***************************************************************************)
(* StoryGuardrails (src/guardrails.py).  "kw in story_lower" is modelled   *)
(* on words: the story holds the word.                                     *)
(***************************************************************************)
GuardMaxAttempts == 2

\* The keywords that occur inside a word of the model's vocabulary as a
\* substring ("cat" in "... [truncated]", "friend" in "friendship").
Substrings(w) ==
    CASE w = "[truncated]" -> {"cat"}
      [] w = "friendship" -> {"friend", "friendship"}
      [] w = "diet" -> {"die"}
      [] OTHER -> {w}

Contains(text, word) == \E i \in 1..Len(text) : word \in Substrings(text[i])

\* str.find: the first position of the word
Find(text, word) == Min({i \in 1..Len(text) : word \in Substrings(text[i])})

\* the slice [find - 20 : find + 20] of lines 92 and 98, in words
ContextWords == 2

ContextAround(text, at) ==
    SubSeq(text,
           IF at - ContextWords < 1 THEN 1 ELSE at - ContextWords,
           IF at + ContextWords > Len(text) THEN Len(text) ELSE at + ContextWords)

Context(text, word) == ContextAround(text, Find(text, word))

danger_keywords == <<"kill", "death", "die", "blood", "weapon", "gun", "knife">>
fear_keywords == <<"terrifying", "horror", "nightmare", "scary", "frightening">>
inappropriate_keywords == <<"hate", "stupid", "idiot", "dumb">>

\* one of the three for-loops of lines 89-104: the violations it appends
RECURSIVE KeywordLoop(_, _, _, _, _)
KeywordLoop(text, keywords, i, negations, label) ==
    IF i > Len(keywords) THEN <<>>
    ELSE (IF Contains(text, keywords[i])
             /\ \A n \in negations : ~Contains(Context(text, keywords[i]), n)
          THEN <<label \o keywords[i]>> ELSE <<>>)
         \o KeywordLoop(text, keywords, i + 1, negations, label)

\* line 106: is_safe = len(violations) == 0
KeywordVerdict(violations) == <<Bool(Len(violations) = 0), StrList(violations)>>

\* _keyword_content_safety_check: (is_safe, violations)
_keyword_content_safety_check(story_text) ==
    KeywordVerdict(
        KeywordLoop(story_text, danger_keywords, 1, {"not", "no", "never"},
                    "Contains dangerous content: ")
        \o KeywordLoop(story_text, fear_keywords, 1, {"not", "no"},
                       "Contains scary content: ")
        \o KeywordLoop(story_text, inappropriate_keywords, 1, {},
                       "Contains inappropriate language: "))

\* lines 68-72: (is_safe, violations + concerns)
LlmVerdict(is_safe, both) ==
    IF both.ok THEN Ok(<<is_safe, both.val>>) ELSE both

\* lines 66-72, given the parsed response
LlmSafetyResult(loaded) ==
    IF ~loaded.ok THEN Raise(Exc("JSONDecodeError", "Expecting value"))
    ELSE IF loaded.val.t # "dict"
    THEN Raise(AttributeError("result has no attribute 'get'"))
    ELSE LlmVerdict(Get(loaded.val, "is_safe", Bool(FALSE)),
                    Plus(Get(loaded.val, "violations", List(<<>>)),
                         Get(loaded.val, "concerns", List(<<>>))))

\* the try block of _llm_content_safety_check, lines 53-72, for one attempt
LlmSafetyTry(att) ==
    IF att.kind = "raise" THEN Raise(att.exc)
    ELSE LlmSafetyResult(Loads(att.content))

\* an except clause that answers "unsafe" without looking at the story
LlmSafetyExceptUnsafe(tried, story_text) ==
    IF tried.ok THEN tried.val
    ELSE <<Bool(FALSE), StrList(<<"Safety check unavailable">>)>>

\* the except clause of lines 73-76: fall back to keyword-based checking
LlmSafetyExcept(tried, story_text) ==
    IF tried.ok THEN tried.val ELSE _keyword_content_safety_check(story_text)

\* The body of _llm_content_safety_check for one API attempt: every
\* exception of the try block ends in the keyword check.
LlmSafetyOnce(story_text, att) == LlmSafetyExcept(LlmSafetyTry(att), story_text)

\* _llm_content_safety_check under @retry_with_backoff(max_attempts=2)
_llm_content_safety_check(story_text, attempts) ==
    retry_with_backoff(GuardMaxAttempts,
        [k \in 1..Len(attempts) |-> Ok(LlmSafetyOnce(story_text, attempts[k]))])

\* check_content_safety; use_llm_guardrails is True (line 27), and the
\* decorated call never raises since its body catches every exception
check_content_safety(story_text, enable_content_filter, attempts) ==
    IF ~enable_content_filter THEN <<Bool(TRUE), List(<<>>)>>
    ELSE IF IsBlank(story_text) THEN <<Bool(FALSE), StrList(<<"Empty story">>)>>
    ELSE _llm_content_safety_check(story_text, attempts).out.val

\* story.split('.'): the sentences, each a sequence of words
RECURSIVE SplitDots(_, _, _)
SplitDots(text, i, cur) ==
    IF i > Len(text) THEN <<cur>>
    ELSE IF text[i] = "." THEN <<cur>> \o SplitDots(text, i + 1, <<>>)
    ELSE SplitDots(text, i + 1, Append(cur, text[i]))

LongSentenceWords == 25
MaxLongSentences == 3
MaxComplexWords == 5
MinPositiveWords == 3

complex_words == {"nevertheless", "consequently", "furthermore", "therefore"}
positive_keywords == {"kind", "friend", "help", "love", "happy", "smile", "laugh", "joy"}

\* line 159: is_appropriate = len(issues) == 0
AgeVerdict(issues) == <<Bool(Len(issues) = 0), StrList(issues)>>

\* lines 141-157: the three checks, given the three counts
AgeIssues(long_sentences, complex_count, positive_count) ==
    (IF long_sentences > MaxLongSentences
     THEN <<"Too many long sentences for target age group">> ELSE <<>>)
    \o (IF complex_count > MaxComplexWords
        THEN <<"Vocabulary may be too complex for younger children">> ELSE <<>>)
    \o (IF positive_count < MinPositiveWords
        THEN <<"Story may lack sufficient positive elements">> ELSE <<>>)

\* lines 141-142: the sentences of more than 25 words
LongSentences(sentences) ==
    Cardinality({i \in 1..Len(sentences) :
                    Len(Strip(sentences[i])) > LongSentenceWords})

\* check_age_appropriateness: (is_appropriate, issues)
check_age_appropriateness(story_text, enable_age_check) ==
    IF ~enable_age_check THEN <<Bool(TRUE), List(<<>>)>>
    ELSE AgeVerdict(AgeIssues(
            LongSentences(SplitDots(story_text, 1, <<>>)),
            Cardinality({w \in complex_words : Contains(story_text, w)}),
            Cardinality({w \in positive_keywords : Contains(story_text, w)})))

\* lines 168-176: the returned dict
ValidationDict(safety, age, all_issues) ==
    IF ~all_issues.ok THEN all_issues
    ELSE Ok(Dict(<< <<"is_valid", And(safety[1], age[1])>>,
                    <<"is_safe", safety[1]>>,
                    <<"is_age_appropriate", age[1]>>,
                    <<"safety_violations", safety[2]>>,
                    <<"age_issues", age[2]>>,
                    <<"all_issues", all_issues.val>> >>))

\* a report that lists the age issues before the safety violations
ValidationAgeFirst(safety, age) == ValidationDict(safety, age, Plus(age[2], safety[2]))

\* lines 165-176, given the two checks' results
ValidationOf(safety, age) == ValidationDict(safety, age, Plus(safety[2], age[2]))

\* validate_story: the outcome of the call (the + of line 175 can raise)
validate_story(story_text, enable_content_filter, enable_age_check, attempts) ==
    ValidationOf(check_content_safety(story_text, enable_content_filter, attempts),
                 check_age_appropriateness(story_text, enable_age_check))

(***************************************************************************)
(* utils.sanitize_text(text, max_length), with the length counted in words *)
(***************************************************************************)
sanitize_text(text, max_length) ==
    IF text = <<>> THEN <<>>
    ELSE IF Len(text) > max_length
         THEN SubSeq(text, 1, max_length) \o <<"...", "[truncated]">>
    ELSE text

(***************************************************************************)
(* StoryCategorizer (src/categorizer.py).  The response text is a sequence *)
(* of lines; a line is [key, val]: the text before its first colon and the *)
(* text after it (key "" for a line without a colon).                      *)
(***************************************************************************)
CategorizerMaxAttempts == 3

\* the request length limit of line 71, in words
MaxRequestLen == 3

categories == {"adventure", "friendship", "fantasy", "animals", "default"}

Line(key, val) == [key |-> key, val |-> val]

\* str.strip() on the values the model uses
StripVal(val) ==
    CASE val = " Adventure " -> "Adventure"
      [] val = " adventure" -> "adventure"
      [] val = " fantasy" -> "fantasy"
      [] val = " Animals " -> "Animals"
      [] val = " friendship" -> "friendship"
      [] val = " default" -> "default"
      [] val = " None Specified" -> "None Specified"
      [] val = " None" -> "None"
      [] val = " none" -> "none"
      [] val = " sci-fi" -> "sci-fi"
      [] val = " [adventure]" -> "[adventure]"
      [] val = " Luna, Max" -> "Luna, Max"
      [] val = " magic, a kite" -> "magic, a kite"
      [] val = " sharing" -> "sharing"
      [] val = " any" -> "any"
      [] val = " calm" -> "calm"
      [] val = " " -> ""
      [] OTHER -> val

\* str.lower() on the values the model uses
Lower(val) ==
    CASE val \in {"Adventure", "ADVENTURE"} -> "adventure"
      [] val = "Fantasy" -> "fantasy"
      [] val = "Animals" -> "animals"
      [] val = "None Specified" -> "none specified"
      [] val = "None" -> "none"
      [] OTHER -> val

\* [c.strip() for c in val.split(',')] on the values the model uses
SplitComma(val) ==
    CASE val = "Luna, Max" -> <<"Luna", "Max">>
      [] val = "magic, a kite" -> <<"magic", "a kite">>
      [] OTHER -> <<val>>

_call_categorizer_api(attempts) ==
    retry_with_backoff(CategorizerMaxAttempts, CallApiEach(attempts))

\* one turn of the for-loop of lines 105-123: the fields after a line with
\* this key and this (stripped) value
ParseLine(key, val, acc) ==
    CASE key = "CATEGORY" ->
           IF Lower(val) \in categories
           THEN [acc EXCEPT !.category = Lower(val)] ELSE acc
      [] key = "CHARACTERS" ->
           IF Lower(val) # "none specified"
           THEN [acc EXCEPT !.characters = SplitComma(val)] ELSE acc
      [] key = "THEME" -> [acc EXCEPT !.theme = val]
      [] key = "SETTING" -> [acc EXCEPT !.setting = val]
      [] key = "ELEMENTS" ->
           IF Lower(val) # "none"
           THEN [acc EXCEPT !.elements = SplitComma(val)] ELSE acc
      [] key = "TONE" -> [acc EXCEPT !.tone = val]
      [] OTHER -> acc

\* the for-loop of lines 105-123: the parsed fields after the lines from i on,
\* starting from the fields in acc
RECURSIVE ParseLines(_, _, _)
ParseLines(lines, i, acc) ==
    IF i > Len(lines) THEN acc
    ELSE ParseLines(lines, i + 1,
                    ParseLine(lines[i].key, StripVal(lines[i].val), acc))

CategorizationDict(fields, raw_analysis) ==
    Dict(<< <<"category", Str(fields.category)>>,
            <<"characters", StrList(fields.characters)>>,
            <<"theme", Str(fields.theme)>>,
            <<"setting", Str(fields.setting)>>,
            <<"elements", StrList(fields.elements)>>,
            <<"tone", Str(fields.tone)>>,
            <<"raw_analysis", raw_analysis>> >>)

DefaultFields ==
    [category |-> "default", characters |-> <<>>, theme |-> "", setting |-> "",
     elements |-> <<>>, tone |-> "neutral"]

AnalysisText(lines) ==
    List([i \in 1..Len(lines) |-> List(<<Str(lines[i].key), Str(lines[i].val)>>)])

\* _fallback_categorize
_fallback_categorize(user_req) ==
    LET any(words) == \E w \in words : Contains(user_req, w)
        category ==
            IF any({"adventure", "journey", "quest", "explore", "discover"})
            THEN "adventure"
            ELSE IF any({"friend", "friendship", "together", "help"})
            THEN "friendship"
            ELSE IF any({"magic", "wizard", "fairy", "dragon", "castle", "princess"})
            THEN "fantasy"
            ELSE IF any({"animal", "cat", "dog", "bird", "rabbit", "bear", "lion"})
            THEN "animals"
            ELSE "default"
    IN CategorizationDict([DefaultFields EXCEPT !.category = category],
                          Str("Fallback categorization"))

\* lines 93-133, given the outcome of _call_categorizer_api
CategorizeResponse(api) ==
    IF ~api.ok THEN api
    ELSE Ok(CategorizationDict(ParseLines(api.val, 1, DefaultFields),
                               AnalysisText(api.val)))

\* categorize_and_extract: the try block (lines 69-133), then the except
\* clause (lines 135-137), which sees the request as sanitized at line 71.
CategorizeTry(sanitized, attempts) ==
    CategorizeResponse(_call_categorizer_api(attempts).out)

\* an except clause that answers with the default categorization
CategorizeExceptDefault(tried, sanitized) ==
    IF tried.ok THEN tried
    ELSE Ok(CategorizationDict(DefaultFields, Str("Fallback categorization")))

CategorizeExcept(tried, sanitized) ==
    IF tried.ok THEN tried ELSE Ok(_fallback_categorize(sanitized))

\* lines 73-137, with user_request as reassigned at line 71
CategorizeSanitized(sanitized, attempts) ==
    CategorizeExcept(CategorizeTry(sanitized, attempts), sanitized)

categorize_and_extract(user_req, attempts) ==
    CategorizeSanitized(sanitize_text(user_req, MaxRequestLen), attempts)

(***************************************************************************)
(* Storyteller (src/storyteller.py)                                        *)
(***************************************************************************)
StoryMaxAttempts == 3

\* _call_story_api under @retry_with_backoff(max_attempts=3): defined at
\* lines 54-71; generate_story does not call it.
_call_story_api(attempts) == retry_with_backoff(StoryMaxAttempts, CallApiEach(attempts))

\* categorize_request: the outcome of the call
categorize_request(user_req, enable_categorization, attempts) ==
    IF ~enable_categorization
    THEN Ok(Dict(<< <<"category", Str("default")>>,
                    <<"characters", List(<<>>)>>,
                    <<"theme", Str("")>>,
                    <<"setting", Str("")>>,
                    <<"elements", List(<<>>)>>,
                    <<"tone", Str("neutral")>> >>))
    ELSE categorize_and_extract(user_req, attempts)

\* The external answers one generate_story call consumes: the categorizer
\* API, the story API and the safety API (each a script of attempts), and
\* the configuration create_variety_config() would draw.
GenEnv(cat, api, guard, fresh) ==
    [cat |-> cat, api |-> api, guard |-> guard, fresh |-> fresh]

\* lines 244-251: the dict returned, given the outcome of validate_story
GenerateResult(story_text, categorization, variety, validation) ==
    IF ~validation.ok THEN validation
    ELSE Ok([story |-> story_text,
             category |-> Get(categorization, "category", Str("default")).v,
             categorization |-> categorization,
             variety_config |-> variety,
             validation |-> validation.val,
             is_valid |-> Get(validation.val, "is_valid", None),
             error |-> "",
             api_calls |-> 1])

\* lines 237-251, given the response of the one API call
GenerateResponse(response, categorization, variety, settings, guard) ==
    IF response.kind = "raise" THEN Raise(response.exc)
    ELSE GenerateResult(response.content,            \* None becomes ""
                        categorization, variety,
                        validate_story(response.content,
                                       settings.enable_content_filter,
                                       settings.enable_age_check, guard))

\* The try block of generate_story (lines 226-251): ONE direct call of
\* client.chat.completions.create, then the guardrail validation.
GenerateTry(categorization, variety, settings, env) ==
    GenerateResponse(env.api[1], categorization, variety, settings, env.guard)

\* The except clause of generate_story (lines 253-261).
GenerateExcept(tried, categorization) ==
    IF tried.ok THEN tried
    ELSE Ok([story |-> <<>>,
             category |-> Get(categorization, "category", Str("default")).v,
             categorization |-> categorization,
             variety_config |-> None,                  \* key absent
             validation |-> Dict(<< <<"is_valid", Bool(FALSE)>>,
                                    <<"error", Str(tried.exc.msg)>> >>),
             is_valid |-> Bool(FALSE),
             error |-> tried.exc.msg,
             api_calls |-> 1])

\* lines 221-261, given the outcome of categorize_request (line 218, which
\* is outside the try block)
GenerateCategorized(categorized, variety, settings, env) ==
    IF ~categorized.ok THEN categorized
    ELSE GenerateExcept(GenerateTry(categorized.val, variety, settings, env),
                        categorized.val)

\* lines 221-222: the configuration the call works with
VarietyUsed(variety, env) == IF variety = None THEN env.fresh ELSE variety

\* Storyteller.generate_story(user_request, revision_context, variety_config):
\* the outcome of the call.  variety is None when the argument is omitted.
\* The revision context only changes the prompt text.
generate_story(user_req, revision_context, variety, settings, env) ==
    GenerateCategorized(
        categorize_request(user_req, settings.enable_categorization, env.cat),
        VarietyUsed(variety, env),
        settings, env)

(***************************************************************************)
(* StoryStorage (src/story_storage.py).  The database is the rows of the   *)
(* stories table, the AUTOINCREMENT counter (sqlite_sequence) and the      *)
(* number of with-blocks left without conn.close() having run.             *)
(***************************************************************************)
EmptyDb == [rows |-> <<>>, seq |-> 0, open |-> 0]

\* What the database does to one operation: "none" lets it through,
\* "locked" and "error" make the statement raise sqlite3.OperationalError or
\* another exception inside the with-block.
DbFaults == {"none", "locked", "error"}

\* _get_connection around a with-block: conn.close() (line 32) runs only
\* when the block ends normally; an exception thrown into the generator at
\* the yield leaves through the except clauses without closing.
WithConnection(database, raised) ==
    IF raised THEN [database EXCEPT !.open = @ + 1] ELSE database

\* "1 if x else 0"
BoolToInt(x) == IF Truthy(x) THEN 1 ELSE 0

\* bool(row[...])
IntToBool(n) == Bool(n # 0)

\* The INSERT of save_story (lines 96-124): the row written for story_data.
InsertRow(story_data, id) ==
    [id |-> id,
     story_text |-> story_data.story,
     user_request |-> story_data.user_request,
     category |-> story_data.category,
     categorization |-> Dumps(story_data.categorization),
     judge_score |-> story_data.judge_score,
     judge_feedback |-> story_data.judge_feedback,
     revision_count |-> story_data.revision_count,
     is_valid |-> BoolToInt(story_data.is_valid),
     meets_quality_threshold |-> BoolToInt(story_data.meets_quality_threshold),
     validation |-> Dumps(story_data.validation),
     parent_settings |-> Dumps(story_data.parent_settings)]

\* save_story: the database afterwards and the id returned (0 on failure)
\* a rowid that is one more than the largest rowid in the table
NextRowIdMax(database) ==
    IF database.rows = <<>> THEN 1
    ELSE 1 + CHOOSE m \in {database.rows[i].id : i \in 1..Len(database.rows)} :
                 \A i \in 1..Len(database.rows) : database.rows[i].id <= m

\* lines 50 and 125: id INTEGER PRIMARY KEY AUTOINCREMENT, the rowid of the
\* INSERT is one more than the largest rowid the table has ever held
NextRowId(database) == database.seq + 1

\* a save_story that reports an id for a record it did not write
SaveStoryIdOnFailure(database, story_data, fault) ==
    IF fault # "none"
    THEN [db |-> WithConnection(database, TRUE), id |-> NextRowId(database)]
    ELSE [db |-> WithConnection(
                    [database EXCEPT
                        !.rows = Append(@, InsertRow(story_data, NextRowId(database))),
                        !.seq = NextRowId(database)],
                    FALSE),
          id |-> NextRowId(database)]

save_story(database, story_data, fault) ==
    IF fault # "none"
    THEN [db |-> WithConnection(database, TRUE), id |-> 0]
    ELSE LET story_id == NextRowId(database)
         IN [db |-> WithConnection(
                        [database EXCEPT !.rows = Append(@, InsertRow(story_data, story_id)),
                                         !.seq = story_id],
                        FALSE),
             id |-> story_id]

\* "json.loads(text) if text else {}"
LoadsOrEmpty(text) == IF text # <<>> THEN Loads(text).val ELSE Dict(<<>>)

\* a _row_to_dict that reads both flags from the is_valid column
RowToDictOneFlag(row) ==
    [id |-> row.id,
     story |-> row.story_text,
     user_request |-> row.user_request,
     category |-> row.category,
     categorization |-> LoadsOrEmpty(row.categorization),
     judge_score |-> row.judge_score,
     judge_feedback |-> row.judge_feedback,
     revision_count |-> row.revision_count,
     is_valid |-> IntToBool(row.is_valid),
     meets_quality_threshold |-> IntToBool(row.is_valid),
     validation |-> LoadsOrEmpty(row.validation),
     parent_settings |-> LoadsOrEmpty(row.parent_settings)]

\* _row_to_dict
_row_to_dict(row) ==
    [id |-> row.id,
     story |-> row.story_text,
     user_request |-> row.user_request,
     category |-> row.category,
     categorization |-> LoadsOrEmpty(row.categorization),
     judge_score |-> row.judge_score,
     judge_feedback |-> row.judge_feedback,
     revision_count |-> row.revision_count,
     is_valid |-> IntToBool(row.is_valid),
     meets_quality_threshold |-> IntToBool(row.meets_quality_threshold),
     validation |-> LoadsOrEmpty(row.validation),
     parent_settings |-> LoadsOrEmpty(row.parent_settings)]

NoStory == [id |-> 0]

\* get_story: the dict of the row with the id, or None (here NoStory)
get_story(database, story_id, fault) ==
    LET found == {i \in 1..Len(database.rows) : database.rows[i].id = story_id}
    IN [db |-> WithConnection(database, fault # "none"),
        story |-> IF fault # "none" \/ found = {} THEN NoStory
                  ELSE _row_to_dict(database.rows[Min(found)])]

\* a delete_story whose WHERE clause is "id <= ?"
DeleteStoryUpTo(database, story_id, fault) ==
    IF fault # "none"
    THEN [db |-> WithConnection(database, TRUE), deleted |-> FALSE]
    ELSE [db |-> WithConnection(
                    [database EXCEPT !.rows =
                        SelectSeq(@, LAMBDA r : r.id > story_id)],
                    FALSE),
          deleted |-> \E i \in 1..Len(database.rows) : database.rows[i].id <= story_id]

\* delete_story: the database afterwards and whether a row was deleted
delete_story(database, story_id, fault) ==
    IF fault # "none"
    THEN [db |-> WithConnection(database, TRUE), deleted |-> FALSE]
    ELSE [db |-> WithConnection(
                    [database EXCEPT !.rows =
                        SelectSeq(@, LAMBDA r : r.id # story_id)],
                    FALSE),
          deleted |-> \E i \in 1..Len(database.rows) : database.rows[i].id = story_id]

\* ORDER BY created_at DESC, for rows written at different times: the
\* newest row first
NewestFirst(rows) == [i \in 1..Len(rows) |-> rows[Len(rows) + 1 - i]]

\* LIMIT n OFFSET k
LimitOffset(rows, limit, offset) ==
    SubSeq(rows, offset + 1,
           IF offset + limit > Len(rows) THEN Len(rows) ELSE offset + limit)

RowsToDicts(rows) == [i \in 1..Len(rows) |-> _row_to_dict(rows[i])]

\* the result of a reading operation: what the query selected, or the
\* value of the except clause; the rows are left as they are
ReadResult(database, fault, selected, failed) ==
    [db |-> WithConnection(database, fault # "none"),
     out |-> IF fault # "none" THEN failed ELSE selected]

\* get_all_stories (lines 157-174); limit 0 is "no limit" ("if limit:")
get_all_stories(database, limit, offset, fault) ==
    ReadResult(database, fault,
               RowsToDicts(IF limit # 0
                           THEN LimitOffset(NewestFirst(database.rows), limit, offset)
                           ELSE NewestFirst(database.rows)),
               <<>>)

\* search_stories (lines 176-196): user_request LIKE %query% OR story_text
\* LIKE %query%
search_stories(database, query, limit, fault) ==
    ReadResult(database, fault,
               RowsToDicts(LimitOffset(
                   SelectSeq(NewestFirst(database.rows),
                             LAMBDA r : \/ Contains(r.user_request, query)
                                        \/ Contains(r.story_text, query)),
                   limit, 0)),
               <<>>)

\* filter_stories (lines 198-239): the conditions that are given, joined by
\* AND; category "" is falsy, a score of None is not given
filter_stories(database, category, min_score, max_score, limit, fault) ==
    ReadResult(database, fault,
               RowsToDicts(LimitOffset(
                   SelectSeq(NewestFirst(database.rows),
                             LAMBDA r : /\ category # "" => r.category = category
                                        /\ min_score # None => r.judge_score >= min_score.v
                                        /\ max_score # None => r.judge_score <= max_score.v),
                   limit, 0)),
               <<>>)

\* get_statistics (lines 241-285): the counts; the two averages are left
\* out of the model
get_statistics(database, fault) ==
    ReadResult(database, fault,
               [total_stories |-> Len(database.rows),
                category_distribution |->
                    [c \in {database.rows[i].category : i \in 1..Len(database.rows)} |->
                        Cardinality({i \in 1..Len(database.rows) :
                                        database.rows[i].category = c})],
                stories_meeting_threshold |->
                    Cardinality({i \in 1..Len(database.rows) :
                                    database.rows[i].meets_quality_threshold = 1})],
               [total_stories |-> 0, category_distribution |-> <<>>,
                stories_meeting_threshold |-> 0])

(***************************************************************************)
(* The external answers the model draws from.                              *)
(***************************************************************************)
RateLimitError == Exc("RateLimitError", "Rate limit reached")
APIConnectionError == Exc("APIConnectionError", "Connection error.")
APITimeoutError == Exc("APITimeoutError", "Request timed out.")
AuthenticationError == Exc("APIError", "Incorrect API key provided")

\* a script of API attempts: the first attempt, then the same answer again
Always(att) == <<att, att, att>>
Then(first, att) == <<first, att, att>>

CalmStory == <<"kind", "friend", "help">>
HappyStory == <<"happy", "smile", "joy", ".">>
DullStory == <<"once">>

SafeVerdict ==
    Dumps(Dict(<< <<"is_safe", Bool(TRUE)>>, <<"violations", List(<<>>)>>,
                  <<"concerns", List(<<>>)>> >>))
UnsafeVerdict ==
    Dumps(Dict(<< <<"is_safe", Bool(FALSE)>>,
                  <<"violations", StrList(<<"frightening scene">>)>>,
                  <<"concerns", List(<<>>)>> >>))

\* a safety answer whose violations and concerns are strings, not lists
ProseVerdict ==
    Dumps(Dict(<< <<"is_safe", Bool(TRUE)>>, <<"violations", Str("none")>>,
                  <<"concerns", Str("none")>> >>))

JudgeText(overall, verdict) ==
    Dumps(Dict(<< <<"scores", Dict(<< <<"story_structure", Num(overall)>>,
                                      <<"overall", Num(overall)>> >>)>>,
                  <<"feedback", Dict(<< <<"what_works_well", Str("warm tone")>>,
                                        <<"suggestions_for_improvement",
                                          Str("shorter sentences")>> >>)>>,
                  <<"verdict", Str(verdict)>> >>))

FantasyAnalysis ==
    <<Line("CATEGORY", " fantasy"), Line("CHARACTERS", " Luna, Max"),
      Line("THEME", " sharing"), Line("SETTING", " any"),
      Line("ELEMENTS", " none"), Line("TONE", " calm")>>

VarietyConfigs ==
    {Dict(<< <<"narrative_style", Str(style)>> >>) : style \in {"fable", "diary"}}

\* What the orchestrator's collaborators answer in the model of the loop.
\* One generate_story call meets one of these: a valid draft, a valid draft
\* with the categorizer and the safety API down, a draft the safety API
\* rejects, a draft without positive words, an empty draft, an API error.
Answers(cat, first, guard) ==
    [cat |-> Always(cat), api |-> Then(first, ApiContent(CalmStory)),
     guard |-> Always(guard)]

OrchAnswers ==
    {Answers(ApiContent(FantasyAnalysis), ApiContent(CalmStory), ApiContent(SafeVerdict)),
     Answers(ApiRaise(APITimeoutError), ApiContent(HappyStory), ApiRaise(APITimeoutError)),
     Answers(ApiContent(FantasyAnalysis), ApiContent(CalmStory), ApiContent(UnsafeVerdict)),
     Answers(ApiContent(FantasyAnalysis), ApiContent(DullStory), ApiContent(SafeVerdict)),
     Answers(ApiContent(FantasyAnalysis), ApiContent(<<>>), ApiContent(SafeVerdict)),
     Answers(ApiContent(FantasyAnalysis), ApiRaise(APIConnectionError),
             ApiContent(SafeVerdict))}

OrchGenEnvs ==
    {GenEnv(a.cat, a.api, a.guard, f) : a \in OrchAnswers, f \in VarietyConfigs}

OrchGuardScripts ==
    {Always(ApiContent(SafeVerdict)), Always(ApiContent(UnsafeVerdict)),
     Always(ApiRaise(APITimeoutError)), Always(ApiContent(ProseVerdict))}

OrchJudgeScripts ==
    {Always(ApiContent(JudgeText(8, "ACCEPT"))),
     Always(ApiContent(JudgeText(4, "REVISE"))),
     Always(ApiContent(JudgeText(4, "ACCEPT"))),
     Always(ApiRaise(APIConnectionError))}

(***************************************************************************)
(* StoryOrchestrator (src/orchestrator.py)                                 *)
(***************************************************************************)
\* the range of the "Max Revisions" slider of the debug view
MaxRevisionsSlider == 5

\* the history counters stop counting here
CountCap == MaxRevisionsSlider + 2

Count(n) == IF n < CountCap THEN n + 1 ELSE n

SafetyContext == [kind |-> "safety"]

\* StoryJudge.generate_revision_prompt: the text handed to the generator
generate_revision_prompt(original_story, judge_feedback, user_req) ==
    [kind |-> "revision", original_story |-> original_story,
     judge_feedback |-> judge_feedback, user_request |-> user_req]

\* a first-draft test that never asks for the safety-focused draft
NeverRegenerates(first) == FALSE

\* line 41: the first draft failed the guardrail checks
NeedsSafetyRegeneration(first) == ~Truthy(first.is_valid)

\* a revision test that lets a revision be requested on the last pass
RevisionsLeftInclusive(count, c) == count < c.max_revisions

\* a loop test that lets revision_count reach max_revisions before it stops
LoopTestInclusive(count, c) ==
    c.enable_iterative_refinement /\ count <= c.max_revisions

\* lines 51-52: the loop is entered (again) with this revision_count
LoopTest(count, c) == c.enable_iterative_refinement /\ count < c.max_revisions

\* line 67: a revision may still be requested
RevisionsLeft(count, c) == count < c.max_revisions - 1

\* line 80
NextRevisionCount(count) == count + 1

\* where generate_story_with_judge goes when it reaches the while test
AtLoopTest(count, c) == IF LoopTest(count, c) THEN "evaluate" ELSE "final_validation"

\* an adoption that does not look at the revised draft's is_valid
AdoptRevisionUnchecked(revised, current_story, count) ==
    [story |-> revised.story, revision_count |-> count + 1, break |-> FALSE]

\* lines 78-83: what the loop does with a revised result: the new story and
\* revision_count, and whether the loop goes on
AdoptRevision(revised, current_story, count) ==
    IF Truthy(revised.is_valid)
    THEN [story |-> revised.story, revision_count |-> NextRevisionCount(count),
          break |-> FALSE]
    ELSE [story |-> current_story, revision_count |-> count, break |-> TRUE]

\* a loop that asks for a revision whatever the evaluation said
AfterEvaluationIgnoringScore(ev, count, c) ==
    IF RevisionsLeft(count, c) THEN "revise" ELSE "max_revisions"

\* lines 61-67, 84-86: after an in-loop evaluation: leave the loop or revise
AfterEvaluation(ev, count, c) ==
    IF ev.meets_threshold THEN "accepted"
    ELSE IF RevisionsLeft(count, c) THEN "revise"
    ELSE "max_revisions"

NoTrace ==
    [generator_calls |-> 0, loop_evaluations |-> 0, revisions_requested |-> 0,
     exit |-> "", generator_errors |-> {}, revised_valid |-> TRUE,
     before |-> [story |-> <<>>, revision_count |-> 0],
     revisions_adopted |-> 0,       \* revised drafts that replaced the story
     first_valid |-> TRUE,          \* is_valid of the first draft
     pre_loop_calls |-> 0,          \* generator calls of lines 39-45
     pre_loop_story |-> <<>>,       \* the story of the last of them
     raised |-> NoExc,              \* the exception that ended the call
     story_variety |-> None,        \* the configuration the story's draft used
     evaluated_story |-> <<>>,      \* the story of the last in-loop evaluation
     judge_api_calls |-> 0,         \* the judge API calls it made
     final_validations |-> 0,       \* calls of line 89
     validated_story |-> <<>>,      \* the story validated there
     final_evaluations |-> 0,       \* calls of line 92
     judged_story |-> <<>>,         \* the story evaluated there
     saves |-> 0,                   \* calls of save_story
     save_fault |-> "none",         \* what the database did to the last one
     saved_id |-> 0,                \* the id it returned
     issued |-> <<>>]               \* the ids save_story has returned, in order

\* the errors the generator has reported so far
NoteError(errors, generated) ==
    IF generated.error # "" THEN errors \cup {generated.error} ELSE errors

\* lines 35-41, and 47-48 when the first draft is valid
GenerateInitial ==
    /\ pc = "generate_initial"
    /\ \E vc \in VarietyConfigs, env \in OrchGenEnvs :
         \E generated \in {generate_story(user_request, [kind |-> "none"], vc, cfg, env)} :
            /\ variety_config' = vc
            /\ IF ~generated.ok
               THEN /\ pc' = "raised"
                    /\ trace' = [trace EXCEPT !.raised = generated.exc]
                    /\ UNCHANGED <<result, story, revision_count>>
               ELSE /\ result' = generated.val
                    /\ trace' = [trace EXCEPT !.generator_calls = Count(@),
                                    !.generator_errors = NoteError(@, generated.val),
                                    !.first_valid = Truthy(generated.val.is_valid),
                                    !.story_variety = VarietyUsed(vc, env),
                                    !.pre_loop_calls = Count(@),
                                    !.pre_loop_story = generated.val.story]
                    /\ IF NeedsSafetyRegeneration(generated.val)
                       THEN /\ pc' = "generate_safety_focused"
                            /\ UNCHANGED <<story, revision_count>>
                       ELSE /\ story' = generated.val.story
                            /\ revision_count' = 0
                            /\ pc' = AtLoopTest(0, cfg)
    /\ UNCHANGED <<cfg, user_request, evaluation, final_validation,
                   final_result, db, saved, call, ret>>

\* lines 41-48: the first draft failed the guardrail; one more draft, asked
\* for without a variety_config, replaces it whether or not it is valid
GenerateSafetyFocused ==
    /\ pc = "generate_safety_focused"
    /\ \E env \in OrchGenEnvs :
         \E generated \in {generate_story(user_request, SafetyContext, None, cfg, env)} :
            IF ~generated.ok
            THEN /\ pc' = "raised"
                 /\ trace' = [trace EXCEPT !.raised = generated.exc]
                 /\ UNCHANGED <<result, story, revision_count>>
            ELSE /\ result' = generated.val
                 /\ trace' = [trace EXCEPT !.generator_calls = Count(@),
                                 !.generator_errors = NoteError(@, generated.val),
                                 !.story_variety = VarietyUsed(None, env),
                                 !.pre_loop_calls = Count(@),
                                 !.pre_loop_story = generated.val.story]
                 /\ story' = generated.val.story
                 /\ revision_count' = 0
                 /\ pc' = AtLoopTest(0, cfg)
    /\ UNCHANGED <<cfg, user_request, variety_config, evaluation,
                   final_validation, final_result, db, saved, call, ret>>

\* lines 53-67 and 84-86: one in-loop evaluation and what follows from it
Evaluate ==
    /\ pc = "evaluate"
    /\ \E attempts \in OrchJudgeScripts :
         \E judged \in {evaluate_story(story, cfg.min_score, attempts)} :
            IF ~judged.ok
            THEN /\ pc' = "raised"
                 /\ trace' = [trace EXCEPT !.raised = judged.exc]
                 /\ UNCHANGED evaluation
            ELSE \E after \in {AfterEvaluation(judged.val, revision_count, cfg)} :
                 /\ evaluation' = judged.val
                 /\ pc' = IF after = "revise" THEN "revise" ELSE "final_validation"
                 /\ trace' = [trace EXCEPT !.loop_evaluations = Count(@),
                                 !.evaluated_story = story,
                                 !.judge_api_calls = JudgeApiCalls(story, attempts),
                                 !.exit = IF after = "revise" THEN @ ELSE after]
    /\ UNCHANGED <<cfg, user_request, variety_config, result, story, revision_count,
                   final_validation, final_result, db, saved, call, ret>>

\* lines 68-83: one revision request and the adoption of its result; the
\* local revised_result is the value generated here
Revise ==
    /\ pc = "revise"
    /\ \E env \in OrchGenEnvs :
         \E generated \in {generate_story(
                                user_request,
                                generate_revision_prompt(
                                    story, evaluation.detailed_feedback, user_request),
                                variety_config, cfg, env)} :
            IF ~generated.ok
            THEN /\ pc' = "raised"
                 /\ trace' = [trace EXCEPT !.raised = generated.exc]
                 /\ UNCHANGED <<story, revision_count>>
            ELSE \E adopted \in {AdoptRevision(generated.val, story, revision_count)} :
                 /\ story' = adopted.story
                 /\ revision_count' = adopted.revision_count
                 /\ pc' = IF adopted.break THEN "final_validation"
                          ELSE AtLoopTest(adopted.revision_count, cfg)
                 /\ trace' = [trace EXCEPT
                        !.generator_calls = Count(@),
                        !.revisions_requested = Count(@),
                        !.generator_errors = NoteError(@, generated.val),
                        !.before = [story |-> story, revision_count |-> revision_count],
                        !.revised_valid = Truthy(generated.val.is_valid),
                        !.revisions_adopted =
                            IF Truthy(generated.val.is_valid) THEN Count(@) ELSE @,
                        !.story_variety =
                            IF Truthy(generated.val.is_valid)
                            THEN VarietyUsed(variety_config, env) ELSE @,
                        !.exit = IF adopted.break THEN "guardrail" ELSE @]
    /\ UNCHANGED <<cfg, user_request, variety_config, result, evaluation,
                   final_validation, final_result, db, saved, call, ret>>

\* line 89
FinalValidation ==
    /\ pc = "final_validation"
    /\ \E guard \in OrchGuardScripts :
         \E validated \in {validate_story(story, cfg.enable_content_filter,
                                            cfg.enable_age_check, guard)} :
            IF ~validated.ok
            THEN /\ pc' = "raised"
                 /\ trace' = [trace EXCEPT !.raised = validated.exc]
                 /\ UNCHANGED final_validation
            ELSE /\ pc' = "final_evaluation"
                 /\ final_validation' = validated.val
                 /\ trace' = [trace EXCEPT !.final_validations = Count(@),
                                 !.validated_story = story]
    /\ UNCHANGED <<cfg, user_request, variety_config, result, story, revision_count,
                   evaluation, final_result, db, saved, call, ret>>

\* lines 94-107
FinalResult(final_evaluation) ==
    [story |-> story,
     user_request |-> user_request,
     category |-> result.category,
     categorization |-> result.categorization,
     variety_config |-> variety_config,
     revision_count |-> revision_count,
     judge_score |-> final_evaluation.overall_score,
     judge_feedback |-> final_evaluation.detailed_feedback,
     validation |-> final_validation,
     is_valid |-> Get(final_validation, "is_valid", None),
     meets_quality_threshold |-> Bool(final_evaluation.meets_threshold),
     parent_settings |-> cfg.parent_settings,
     story_id |-> 0,                            \* 0: no story_id key
     user_feedback_applied |-> FALSE]           \* FALSE: no such key

\* lines 92-107, and the return of line 118 when there is no storage
FinalEvaluation ==
    /\ pc = "final_evaluation"
    /\ \E attempts \in OrchJudgeScripts :
         \E judged \in {evaluate_story(story, cfg.min_score, attempts)} :
            IF ~judged.ok
            THEN /\ pc' = "raised"
                 /\ trace' = [trace EXCEPT !.raised = judged.exc]
                 /\ UNCHANGED final_result
            ELSE /\ final_result' = FinalResult(judged.val)
                 /\ pc' = IF cfg.enable_storage THEN "store" ELSE "done"
                 /\ trace' = [trace EXCEPT !.final_evaluations = Count(@),
                                 !.judged_story = story]
    /\ UNCHANGED <<cfg, user_request, variety_config, result, story, revision_count,
                   evaluation, final_validation, db, saved, call, ret>>

\* the history after a save_story that returned this id
\* history: the ids save_story has returned, failures (0) left out
NoteIssued(issued, id) == IF id > 0 THEN Append(issued, id) ELSE issued

Remember(history, id, story_data) ==
    IF id > 0 THEN history \cup {[id |-> id, story_data |-> story_data]} ELSE history

\* lines 110-118
Store ==
    /\ pc = "store"
    /\ \E fault \in DbFaults :
         \E stored \in {save_story(db, final_result, fault)} :
            /\ db' = stored.db
            /\ saved' = Remember(saved, stored.id, final_result)
            /\ final_result' = IF stored.id > 0
                               THEN [final_result EXCEPT !.story_id = stored.id]
                               ELSE final_result
            /\ trace' = [trace EXCEPT !.saves = Count(@),
                                      !.save_fault = fault,
                                      !.saved_id = stored.id,
                                      !.issued = NoteIssued(@, stored.id)]
    /\ pc' = "done"
    /\ UNCHANGED <<cfg, user_request, variety_config, result, story, revision_count,
                   evaluation, final_validation, call, ret>>

(***************************************************************************)
(* One call of generate_story_with_judge on a freshly built orchestrator.  *)
(***************************************************************************)
\* JUDGE_CONFIG["minimum_acceptance_score"]
MinScores == {7}

ParentSettings ==
    {Dict(<<>>),
     Dict(<< <<"persona", Str("gentle_friend")>>,
             <<"values", StrList(<<"kindness", "courage">>)>>,
             <<"child_name", Str("Mia")>> >>)}

OrchConfigs ==
    [max_revisions : 0..MaxRevisionsSlider,
     enable_iterative_refinement : BOOLEAN,
     enable_storage : BOOLEAN,
     enable_categorization : {TRUE},
     enable_content_filter : {TRUE},
     enable_age_check : {TRUE},
     min_score : MinScores,
     parent_settings : {Dict(<<>>)}]

OrchRequests == {<<"a", "dragon", "story">>}

Unset == [kind |-> "unset"]
Idle == [op |-> "idle"]

Init ==
    /\ pc = "generate_initial"
    /\ cfg \in OrchConfigs
    /\ user_request \in OrchRequests
    /\ variety_config = None
    /\ result = Unset
    /\ story = <<>>
    /\ revision_count = 0
    /\ evaluation = Unset
    /\ final_validation = Unset
    /\ final_result = Unset
    /\ trace = NoTrace
    /\ db = EmptyDb
    /\ saved = {}
    /\ call = Idle
    /\ ret = Idle

Next ==
    \/ GenerateInitial
    \/ GenerateSafetyFocused
    \/ Evaluate
    \/ Revise
    \/ FinalValidation
    \/ FinalEvaluation
    \/ Store

Spec == Init /\ [][Next]_vars

(***************************************************************************)
(* Properties of generate_story_with_judge                                 *)
(***************************************************************************)
\* the call has left the refinement loop
LeftLoop == pc \in {"final_validation", "final_evaluation", "store", "done", "raised"}

\* C1: the refinement loop performs at most max_revisions in-loop judge
\* evaluations, and revision_count, in the orchestrator and in the returned
\* result, never exceeds max_revisions (max_revisions in 0..5).
C1_LoopWithinCap ==
    /\ trace.loop_evaluations <= cfg.max_revisions
    /\ revision_count <= cfg.max_revisions
    /\ pc = "done" => final_result.revision_count <= cfg.max_revisions

\* a call that used its whole budget: five evaluations, four revisions
C1_Witness ==
    /\ pc = "done"
    /\ cfg.max_revisions = MaxRevisionsSlider
    /\ trace.loop_evaluations = MaxRevisionsSlider
    /\ final_result.revision_count = MaxRevisionsSlider - 1

\* C2: once a revised draft has failed the guardrail check, the loop is
\* over, story and revision_count are what they were before that revision,
\* and the returned result carries the previous draft.
C2_RetainsPreviousDraft ==
    ~trace.revised_valid =>
        /\ LeftLoop
        /\ story = trace.before.story
        /\ revision_count = trace.before.revision_count
        /\ pc = "done" => /\ final_result.story = trace.before.story
                          /\ final_result.revision_count = trace.before.revision_count

\* a call whose second revision failed the guardrail, returning the first
C2_Witness ==
    /\ pc = "done"
    /\ ~trace.revised_valid
    /\ trace.before.revision_count = 1
    /\ trace.revisions_requested = 2
    /\ final_result.story = trace.before.story
    /\ final_result.story # <<>>

\* C3: when the in-loop evaluation of the current draft has verdict
\* "ACCEPT", the call does not go on to request a revision of that draft.
C3_AcceptLeavesLoop ==
    pc = "revise" => evaluation.verdict # "ACCEPT"

\* C4: every call ends by returning a result dict: as long as it has not
\* returned, it has a next step to take.
C4_ReturnsResult ==
    (pc = "done" /\ final_result # Unset) \/ (pc # "done" /\ ENABLED Next)

\* the texts a result dict of generate_story_with_judge carries
ResultTexts(final) ==
    {final.judge_feedback.text}
    \cup {Get(final.validation, "error", Str("")).v}
    \cup {Get(final.validation, "all_issues", List(<<>>)).v[i].v :
             i \in 1..Len(Get(final.validation, "all_issues", List(<<>>)).v)}

\* C10: when the generator's result that the returned dict is built from
\* carries an error string, that text is present in the returned dict.
C10_ErrorSurfaced ==
    (pc = "done" /\ result.error # "") => result.error \in ResultTexts(final_result)

\* the call is past the two generator calls of lines 39-45
PastFirstDrafts ==
    pc \in {"evaluate", "revise", "final_validation", "final_evaluation", "store", "done"}

\* C17: revision_count is the number of revised drafts adopted in the loop,
\* and for max_revisions >= 1 neither it nor the number of revisions
\* requested exceeds max_revisions - 1.
C17_CountsAdoptedRevisions ==
    /\ revision_count = trace.revisions_adopted
    /\ cfg.max_revisions >= 1 =>
          /\ revision_count <= cfg.max_revisions - 1
          /\ trace.revisions_requested <= cfg.max_revisions - 1

\* three revisions requested with a budget of four: two adopted, the third
\* rejected by the guardrail
C17_Witness ==
    /\ pc = "done"
    /\ cfg.max_revisions = 4
    /\ trace.revisions_requested = 3
    /\ trace.revisions_adopted = 2
    /\ final_result.revision_count = 2

\* C18: when the loop ended because the evaluator reported that the draft
\* meets the threshold, the returned result reports meets_quality_threshold
\* true and a judge_score at or above the minimum.
C18_AcceptedDraftMeetsThreshold ==
    (pc = "done" /\ trace.exit = "accepted") =>
        /\ final_result.meets_quality_threshold = Bool(TRUE)
        /\ final_result.judge_score >= cfg.min_score

\* C20: before the loop the generator is called once when the first draft
\* is valid and twice when it is not; the story the loop starts from is the
\* last of these drafts, valid or not, and revision_count starts at 0.
C20_OneSafetyRegeneration ==
    PastFirstDrafts =>
        /\ trace.pre_loop_calls = (IF trace.first_valid THEN 1 ELSE 2)
        /\ trace.generator_calls = trace.pre_loop_calls + trace.revisions_requested
        /\ trace.revisions_adopted = 0 =>
              (story = trace.pre_loop_story /\ revision_count = 0)

\* the first draft and the safety-focused draft both failed (the story API
\* was down twice): the call goes on with the empty second draft and
\* returns it with revision_count 0
C20_Witness ==
    /\ pc = "done"
    /\ ~trace.first_valid
    /\ trace.pre_loop_calls = 2
    /\ ~Truthy(result.is_valid)
    /\ final_result.story = trace.pre_loop_story
    /\ final_result.revision_count = 0

(***************************************************************************)
(* The operations checked on their own: one call at a time, with the       *)
(* orchestrator standing by.                                               *)
(***************************************************************************)
StandBy(name) ==
    /\ pc = name
    /\ cfg = Unset
    /\ user_request = <<>>
    /\ variety_config = None
    /\ result = Unset
    /\ story = <<>>
    /\ revision_count = 0
    /\ evaluation = Unset
    /\ final_validation = Unset
    /\ final_result = Unset
    /\ trace = NoTrace
    /\ db = EmptyDb
    /\ saved = {}
    /\ call = Idle
    /\ ret = Idle

(***************************************************************************)
(* retry_with_backoff on its own                                           *)
(***************************************************************************)
\* the largest max_attempts tried; the code uses 2 and 3
MaxAttempts == 3

ValueError == Exc("ValueError", "Empty response from API")

\* what one invocation of a wrapped function can do
FuncOutcomes ==
    {Ok(Str("answer")), Raise(RateLimitError), Raise(APIConnectionError),
     Raise(APITimeoutError), Raise(AuthenticationError), Raise(ValueError)}

\* one call of a function wrapped with retry_with_backoff(max_attempts=n)
CallWrapped ==
    /\ call = Idle
    /\ \E n \in 1..MaxAttempts, func_results \in [1..MaxAttempts -> FuncOutcomes] :
         /\ call' = [op |-> "retry_with_backoff", max_attempts |-> n,
                     func_results |-> func_results]
         /\ ret' = retry_with_backoff(n, func_results)
    /\ UNCHANGED <<orchVars, db, saved>>

InitRetry == StandBy("retry_with_backoff")
NextRetry == CallWrapped
SpecRetry == InitRetry /\ [][NextRetry]_vars

Transient(r) == ~r.ok /\ r.exc.type \in TransientTypes

\* C8: a wrapped function is invoked at most n times; every invocation but
\* the last ended in a transient error; an exception that is not transient
\* propagates from the first attempt; after n transient failures the n-th
\* error is raised to the caller.
C8_BoundedTransientRetry ==
    call.op = "retry_with_backoff" =>
        /\ ret.calls \in 1..call.max_attempts
        /\ \A k \in 1..(ret.calls - 1) : Transient(call.func_results[k])
        /\ ret.out = call.func_results[ret.calls]
        /\ (~call.func_results[1].ok /\ ~Transient(call.func_results[1]))
              => ret.calls = 1
        /\ (\A k \in 1..call.max_attempts : Transient(call.func_results[k]))
              => (ret.calls = call.max_attempts
                  /\ ret.out = call.func_results[call.max_attempts])

\* three attempts, three transient errors of different kinds, the last raised
C8_Witness ==
    /\ call.op = "retry_with_backoff"
    /\ call.max_attempts = 3
    /\ call.func_results[1] = Raise(RateLimitError)
    /\ call.func_results[2] = Raise(APIConnectionError)
    /\ call.func_results[3] = Raise(APITimeoutError)
    /\ ret.calls = 3
    /\ ret.out = Raise(APITimeoutError)

(***************************************************************************)
(* StoryJudge.evaluate_story on its own                                    *)
(***************************************************************************)
\* The judge's answers are built from an object (what the answer carries)
\* and a way of writing it down.
ScoresValues ==
    {Dict(<< <<"story_structure", Num(8)>>, <<"overall", Num(8)>> >>),
     Dict(<< <<"overall", Num(4)>> >>),
     Dict(<< <<"overall", Str("8")>> >>),
     Dict(<< <<"overall", Bool(TRUE)>> >>),
     Dict(<< <<"overall", None>> >>),
     Dict(<< <<"story_structure", Num(8)>> >>),
     List(<<Num(8)>>),
     Num(8)}

FeedbackValues ==
    {Dict(<< <<"what_works_well", Str("warm tone")>>,
             <<"suggestions_for_improvement", Str("shorter sentences")>> >>),
     Str("fine")}

VerdictValues == {Str("ACCEPT"), Str("REVISE"), Str("accept"), Num(1)}

Field(key, values) == {<<>>} \cup {<< <<key, v>> >> : v \in values}

JudgeObjects ==
    {Dict(s \o f \o v) : s \in Field("scores", ScoresValues),
                         f \in Field("feedback", FeedbackValues),
                         v \in Field("verdict", VerdictValues)}

\* the object written as JSON, between words of prose, or cut short
Fenced(text) == <<X("Here is my evaluation:")>> \o text \o <<X("Good night!")>>
CutShort(text) == SubSeq(text, 1, Len(text) - 1)

\* an answer: its text, and the JSON object it carries (None: it carries none)
Answer(text, carried) == [text |-> text, carried |-> carried]

JudgeAnswers ==
    {Answer(Dumps(o), o) : o \in JudgeObjects}
    \cup {Answer(Fenced(Dumps(o)), o) : o \in JudgeObjects}
    \cup {Answer(CutShort(Dumps(o)), None) : o \in JudgeObjects}
    \cup {Answer(Dumps(v), None) :
             v \in {List(<<Num(8)>>), Num(8), Str("good story"), None, Bool(TRUE)}}
    \cup {Answer(<<X("I"), X("liked"), X("it")>>, None)}

\* the answer carries an object with a number as scores.overall
NumericOverall(carried) ==
    /\ carried.t = "dict"
    /\ Get(carried, "scores", None).t = "dict"
    /\ Get(Get(carried, "scores", None), "overall", None).t = "num"

\* the judge API's behaviour over the attempts of one evaluate_story call,
\* and the answer that gets through (None: the call fails)
JudgeCase(attempts, carried) == [attempts |-> attempts, carried |-> carried]

JudgeCases ==
    {JudgeCase(Always(ApiContent(a.text)), a.carried) : a \in JudgeAnswers}
    \cup {JudgeCase(Then(ApiRaise(e), ApiContent(a.text)), a.carried) :
             e \in {RateLimitError, APITimeoutError},
             a \in {Answer(Dumps(o), o) : o \in JudgeObjects}}
    \cup {JudgeCase(Always(ApiRaise(e)), None) :
             e \in {RateLimitError, APIConnectionError, APITimeoutError,
                    AuthenticationError}}
    \cup {JudgeCase(Then(ApiRaise(AuthenticationError),
                         ApiContent(Dumps(o))), None) : o \in JudgeObjects}
    \cup {JudgeCase(Always(ApiContent(<<>>)), None)}

JudgedStories == {CalmStory, <<>>, <<" ">>}

\* one call of evaluate_story(story)
CallEvaluateStory ==
    /\ call = Idle
    /\ \E story_text \in JudgedStories, min_score \in MinScores, c \in JudgeCases :
         /\ call' = [op |-> "evaluate_story", story |-> story_text,
                     min_score |-> min_score, attempts |-> c.attempts,
                     carried |-> IF IsBlank(story_text) THEN None ELSE c.carried]
         /\ ret' = evaluate_story(story_text, min_score, c.attempts)
    /\ UNCHANGED <<orchVars, db, saved>>

InitJudge == StandBy("evaluate_story")
NextJudge == CallEvaluateStory
SpecJudge == InitJudge /\ [][NextJudge]_vars

\* C6: evaluate_story never raises, and when the answer carries no JSON
\* object with a numeric scores.overall, or the call fails, the result has
\* overall_score 0.0 and meets_threshold false.
C6_MalformedScoresZero ==
    call.op = "evaluate_story" =>
        /\ ret.ok
        /\ ~NumericOverall(call.carried) =>
              (ret.val.overall_score = 0 /\ ~ret.val.meets_threshold)

(***************************************************************************)
(* StoryCategorizer.categorize_and_extract on its own                      *)
(***************************************************************************)
CategorizedRequests ==
    {<<>>, <<"a", "dragon", "story">>, <<"a", "quiet", "story">>,
     <<"a", "quiet", "bedtime", "story">>, <<"my", "best", "friend">>,
     <<"a", "quest">>}

\* the CATEGORY part of an analysis: absent, recognised, unrecognised,
\* written in another way, or given twice
CategoryLines ==
    {<<>>}
    \cup {<<Line("CATEGORY", v)>> :
             v \in {" fantasy", " Adventure ", "ADVENTURE", " Animals ", " default",
                    " sci-fi", " [adventure]", " "}}
    \cup {<<Line("category", " fantasy")>>, <<Line(" CATEGORY", " fantasy")>>,
          <<Line("", "fantasy")>>,
          <<Line("CATEGORY", " sci-fi"), Line("CATEGORY", " friendship")>>,
          <<Line("CATEGORY", " fantasy"), Line("CATEGORY", " sci-fi")>>}

OtherLines ==
    {<<>>,
     <<Line("CHARACTERS", " Luna, Max"), Line("THEME", " sharing"),
       Line("SETTING", " any"), Line("ELEMENTS", " none"), Line("TONE", " calm")>>}

Analyses == {c \o o : c \in CategoryLines, o \in OtherLines}

\* the categorizer API's behaviour over the attempts of one call, and the
\* analysis that gets through (failed: none does)
CategorizerCase(attempts, failed, lines) ==
    [attempts |-> attempts, failed |-> failed, lines |-> lines]

CategorizerCases ==
    {CategorizerCase(Always(ApiContent(a)), a = <<>>, a) : a \in Analyses}
    \cup {CategorizerCase(Then(ApiRaise(APITimeoutError), ApiContent(a)), a = <<>>, a) :
             a \in Analyses}
    \cup {CategorizerCase(Always(ApiRaise(e)), TRUE, <<>>) :
             e \in {RateLimitError, APIConnectionError, APITimeoutError,
                    AuthenticationError}}
    \cup {CategorizerCase(Then(ApiRaise(AuthenticationError), ApiContent(a)), TRUE, <<>>) :
             a \in Analyses}

\* one call of categorize_and_extract(user_request)
CallCategorize ==
    /\ call = Idle
    /\ \E user_req \in CategorizedRequests, c \in CategorizerCases :
         /\ call' = [op |-> "categorize_and_extract", user_request |-> user_req,
                     attempts |-> c.attempts, failed |-> c.failed, lines |-> c.lines]
         /\ ret' = categorize_and_extract(user_req, c.attempts)
    /\ UNCHANGED <<orchVars, db, saved>>

InitCategorizer == StandBy("categorize_and_extract")
NextCategorizer == CallCategorize
SpecCategorizer == InitCategorizer /\ [][NextCategorizer]_vars

\* the analysis has a CATEGORY line that names one of the categories
Recognised(lines) ==
    \E i \in 1..Len(lines) :
        lines[i].key = "CATEGORY" /\ Lower(StripVal(lines[i].val)) \in categories

\* C7: categorize_and_extract returns a dict whose category is one of the
\* five categories; an analysis without a recognised CATEGORY line gives
\* "default"; an API failure gives what _fallback_categorize returns for
\* the request.
C7_CategoryFallsBack ==
    call.op = "categorize_and_extract" =>
        /\ ret.ok
        /\ ret.val.t = "dict"
        /\ Get(ret.val, "category", None) \in {Str(c) : c \in categories}
        /\ (~call.failed /\ ~Recognised(call.lines))
              => Get(ret.val, "category", None) = Str("default")
        /\ call.failed
              => ret.val = _fallback_categorize(
                               sanitize_text(call.user_request, MaxRequestLen))

\* the API is down and the request speaks of a dragon: the keyword fallback
\* answers "fantasy"
C7_Witness ==
    /\ call.op = "categorize_and_extract"
    /\ call.failed
    /\ call.user_request = <<"a", "dragon", "story">>
    /\ Get(ret.val, "category", None) = Str("fantasy")
    /\ Get(ret.val, "raw_analysis", None) = Str("Fallback categorization")

(***************************************************************************)
(* Storyteller.generate_story on its own                                   *)
(***************************************************************************)
StoryApiOutcomes ==
    {ApiContent(CalmStory), ApiContent(DullStory), ApiContent(<<>>),
     ApiRaise(RateLimitError), ApiRaise(APIConnectionError),
     ApiRaise(APITimeoutError), ApiRaise(AuthenticationError)}

StoryGenEnvs ==
    {GenEnv(cat, <<first, second, second>>, guard, fresh) :
        cat \in {Always(ApiContent(FantasyAnalysis)), Always(ApiRaise(APITimeoutError))},
        first \in StoryApiOutcomes, second \in StoryApiOutcomes,
        guard \in OrchGuardScripts,
        fresh \in {Dict(<< <<"narrative_style", Str("fable")>> >>)}}

StorySettings ==
    [enable_categorization : BOOLEAN, enable_content_filter : {TRUE},
     enable_age_check : {TRUE}]

\* one call of generate_story(user_request, variety_config=variety)
CallGenerateStory ==
    /\ call = Idle
    /\ \E user_req \in OrchRequests, variety \in {None} \cup VarietyConfigs,
          settings \in StorySettings, env \in StoryGenEnvs :
         /\ call' = [op |-> "generate_story", user_request |-> user_req,
                     variety_config |-> variety, settings |-> settings, env |-> env]
         /\ ret' = generate_story(user_req, [kind |-> "none"], variety, settings, env)
    /\ UNCHANGED <<orchVars, db, saved>>

InitStoryteller == StandBy("generate_story")
NextStoryteller == CallGenerateStory
SpecStoryteller == InitStoryteller /\ [][NextStoryteller]_vars

TransientAttempt(att) == att.kind = "raise" /\ att.exc.type \in TransientTypes

TransientTexts == {RateLimitError.msg, APIConnectionError.msg, APITimeoutError.msg}

\* C9: generate_story reports a transient error of the story API as a
\* failed generation only after three attempts have failed with transient
\* errors.
C9_TransientRetried ==
    call.op = "generate_story" =>
        ((ret.val.error \in TransientTexts /\ ~Truthy(ret.val.is_valid))
            => \A k \in 1..StoryMaxAttempts : TransientAttempt(call.env.api[k]))

(***************************************************************************)
(* StoryGuardrails.check_content_safety on its own                         *)
(***************************************************************************)
GuardedStories ==
    {CalmStory, <<"the", "scary", "cat">>, <<"not", "scary", "at", "all">>,
     <<"a", "knife", "and", "a", "gun">>, <<"never", "kill">>,
     <<"i", "hate", "my", "diet">>, <<>>, <<" ">>}

\* a safety answer whose violations are a list and whose concerns are a string
MixedVerdict ==
    Dumps(Dict(<< <<"is_safe", Bool(TRUE)>>, <<"violations", List(<<>>)>>,
                  <<"concerns", Str("none")>> >>))

\* the safety API's behaviour over the attempts of one call, and whether
\* the LLM check fails: every attempt raises, or the answer is not usable
GuardCase(attempts, failed) == [attempts |-> attempts, failed |-> failed]

GuardCases ==
    {GuardCase(Always(ApiContent(v)), FALSE) :
        v \in {SafeVerdict, UnsafeVerdict, ProseVerdict}}
    \cup {GuardCase(Always(ApiRaise(e)), TRUE) :
             e \in {RateLimitError, APIConnectionError, APITimeoutError,
                    AuthenticationError}}
    \cup {GuardCase(Always(ApiContent(t)), TRUE) :
             t \in {<<>>, <<X("The"), X("story"), X("is"), X("safe")>>,
                    CutShort(SafeVerdict), Dumps(List(<<>>)), MixedVerdict}}
    \cup {GuardCase(Then(ApiRaise(e), ApiContent(v)), FALSE) :
             e \in {RateLimitError, APIConnectionError, APITimeoutError},
             v \in {SafeVerdict, UnsafeVerdict}}
    \cup {GuardCase(Then(ApiRaise(AuthenticationError), ApiContent(SafeVerdict)), TRUE)}

\* the number of safety API calls one check_content_safety call makes
SafetyApiCalls(story_text, enable_content_filter, attempts) ==
    IF ~enable_content_filter \/ IsBlank(story_text) THEN 0
    ELSE _llm_content_safety_check(story_text, attempts).calls

\* one call of check_content_safety(story)
CallCheckContentSafety ==
    /\ call = Idle
    /\ \E story_text \in GuardedStories, enable_content_filter \in BOOLEAN,
          c \in GuardCases :
         /\ call' = [op |-> "check_content_safety", story |-> story_text,
                     enable_content_filter |-> enable_content_filter,
                     attempts |-> c.attempts, failed |-> c.failed]
         /\ ret' = [val |-> check_content_safety(story_text, enable_content_filter,
                                                 c.attempts),
                    api_calls |-> SafetyApiCalls(story_text, enable_content_filter,
                                                 c.attempts)]
    /\ UNCHANGED <<orchVars, db, saved>>

InitGuardrails == StandBy("check_content_safety")
NextGuardrails == CallCheckContentSafety
SpecGuardrails == InitGuardrails /\ [][NextGuardrails]_vars

\* one call of validate_story(story), with the results of its two checks
CallValidateStory ==
    /\ call = Idle
    /\ \E story_text \in GuardedStories, enable_content_filter \in BOOLEAN,
          enable_age_check \in BOOLEAN, c \in GuardCases :
         /\ call' = [op |-> "validate_story", story |-> story_text,
                     enable_content_filter |-> enable_content_filter,
                     enable_age_check |-> enable_age_check,
                     attempts |-> c.attempts]
         /\ ret' = [out |-> validate_story(story_text, enable_content_filter,
                                           enable_age_check, c.attempts),
                    safety |-> check_content_safety(story_text, enable_content_filter,
                                                    c.attempts),
                    age |-> check_age_appropriateness(story_text, enable_age_check)]
    /\ UNCHANGED <<orchVars, db, saved>>

InitValidate == StandBy("validate_story")
NextValidate == CallValidateStory
SpecValidate == InitValidate /\ [][NextValidate]_vars

\* the value under a key of the report returned by the call
Reported(key) == Get(ret.out.val, key, None)

LlmChecked ==
    /\ call.op = "check_content_safety"
    /\ call.enable_content_filter
    /\ ~IsBlank(call.story)

\* C11: for a non-empty story with the content filter enabled, when the LLM
\* safety call fails, check_content_safety returns exactly what
\* _keyword_content_safety_check returns for the same story.
C11_FallsBackToKeywords ==
    (LlmChecked /\ call.failed) =>
        ret.val = _keyword_content_safety_check(call.story)

\* the safety API times out on a story with a knife and a gun: the keyword
\* check's two violations are the answer
C11_Witness ==
    /\ LlmChecked
    /\ call.failed
    /\ call.attempts = Always(ApiRaise(APITimeoutError))
    /\ call.story = <<"a", "knife", "and", "a", "gun">>
    /\ ret.val = <<Bool(FALSE),
                  StrList(<<"Contains dangerous content: gun",
                            "Contains dangerous content: knife">>)>>

\* C15: when the first safety API attempt raises a rate-limit, connection or
\* timeout error, a second attempt is made before the keyword fallback is
\* used.
C15_SafetyCheckRetried ==
    (LlmChecked /\ TransientAttempt(call.attempts[1])) =>
        ret.api_calls = GuardMaxAttempts

(***************************************************************************)
(* StoryStorage on its own: saves, reads and deletes in any order          *)
(***************************************************************************)
\* the number of stories saved in one run
MaxSaves == 2

\* the number of operations the database fails in one run
MaxFaults == 1

\* the faults the database may still produce
FaultsLeft(database) ==
    IF database.open < MaxFaults THEN DbFaults ELSE {"none"}

StoredValidations ==
    {Dict(<< <<"is_valid", Bool(TRUE)>>, <<"is_safe", Bool(TRUE)>>,
             <<"is_age_appropriate", Bool(TRUE)>>, <<"safety_violations", List(<<>>)>>,
             <<"age_issues", List(<<>>)>>, <<"all_issues", List(<<>>)>> >>),
     Dict(<< <<"is_valid", Bool(FALSE)>>, <<"error", Str("Connection error.")>> >>)}

\* result dicts as generate_story_with_judge builds them
StoryDicts ==
    {[story |-> CalmStory,
      user_request |-> <<"a", "dragon", "story">>,
      category |-> "fantasy",
      categorization |-> _fallback_categorize(<<"a", "dragon", "story">>),
      variety_config |-> None,
      revision_count |-> IF meets.v THEN 0 ELSE 1,
      judge_score |-> IF meets.v THEN 8 ELSE 0,
      judge_feedback |-> ErrorFeedback("Connection error."),
      validation |-> validation,
      is_valid |-> Get(validation, "is_valid", None),
      meets_quality_threshold |-> meets,
      parent_settings |-> settings,
      story_id |-> 0] :
        validation \in StoredValidations, meets \in {Bool(TRUE), Bool(FALSE)},
        settings \in ParentSettings}

\* the history without the story of this id
Forget(history, id) == {h \in history : h.id # id}

SaveStory ==
    /\ db.seq < MaxSaves
    /\ \E story_data \in StoryDicts, fault \in FaultsLeft(db) :
         \E stored \in {save_story(db, story_data, fault)} :
            /\ db' = stored.db
            /\ saved' = Remember(saved, stored.id, story_data)
            /\ call' = [op |-> "save_story", story_id |-> 0, fault |-> fault]
            /\ ret' = [id |-> stored.id]
            /\ trace' = [trace EXCEPT !.issued = NoteIssued(@, stored.id)]
    /\ UNCHANGED orchLocals

GetStory ==
    /\ \E story_id \in 1..MaxSaves, fault \in FaultsLeft(db) :
         \E got \in {get_story(db, story_id, fault)} :
            /\ db' = got.db
            /\ call' = [op |-> "get_story", story_id |-> story_id, fault |-> fault]
            /\ ret' = got.story
    /\ UNCHANGED <<orchVars, saved>>

DeleteStory ==
    /\ \E story_id \in 1..MaxSaves, fault \in FaultsLeft(db) :
         \E gone \in {delete_story(db, story_id, fault)} :
            /\ db' = gone.db
            /\ saved' = IF gone.deleted THEN Forget(saved, story_id) ELSE saved
            /\ call' = [op |-> "delete_story", story_id |-> story_id, fault |-> fault]
            /\ ret' = [id |-> 0]
    /\ UNCHANGED orchVars

\* the arguments the readers are called with
SearchQueries == {"dragon", "moon"}
ListLimits == {0, 1}
StoryFilters ==
    {[category |-> "", min_score |-> None, max_score |-> None],
     [category |-> "fantasy", min_score |-> Num(5), max_score |-> None],
     [category |-> "", min_score |-> None, max_score |-> Num(5)]}

GetAllStories ==
    /\ \E limit \in ListLimits, fault \in FaultsLeft(db) :
         \E got \in {get_all_stories(db, limit, 0, fault)} :
            /\ db' = got.db
            /\ call' = [op |-> "get_all_stories", story_id |-> 0, fault |-> fault]
            /\ ret' = [id |-> 0, out |-> got.out]
    /\ UNCHANGED <<orchVars, saved>>

SearchStories ==
    /\ \E query \in SearchQueries, fault \in FaultsLeft(db) :
         \E got \in {search_stories(db, query, 50, fault)} :
            /\ db' = got.db
            /\ call' = [op |-> "search_stories", story_id |-> 0, fault |-> fault]
            /\ ret' = [id |-> 0, out |-> got.out]
    /\ UNCHANGED <<orchVars, saved>>

FilterStories ==
    /\ \E f \in StoryFilters, fault \in FaultsLeft(db) :
         \E got \in {filter_stories(db, f.category, f.min_score, f.max_score,
                                    50, fault)} :
            /\ db' = got.db
            /\ call' = [op |-> "filter_stories", story_id |-> 0, fault |-> fault]
            /\ ret' = [id |-> 0, out |-> got.out]
    /\ UNCHANGED <<orchVars, saved>>

GetStatistics ==
    /\ \E fault \in FaultsLeft(db) :
         \E got \in {get_statistics(db, fault)} :
            /\ db' = got.db
            /\ call' = [op |-> "get_statistics", story_id |-> 0, fault |-> fault]
            /\ ret' = [id |-> 0, out |-> got.out]
    /\ UNCHANGED <<orchVars, saved>>

InitStorage == StandBy("storage")
NextStorage ==
    \/ SaveStory
    \/ GetStory
    \/ DeleteStory
    \/ GetAllStories
    \/ SearchStories
    \/ FilterStories
    \/ GetStatistics
SpecStorage == InitStorage /\ [][NextStorage]_vars

\* the fields the round trip is about
SameFields(got, d) ==
    /\ got.story = d.story
    /\ got.user_request = d.user_request
    /\ got.category = d.category
    /\ got.categorization = d.categorization
    /\ got.judge_score = d.judge_score
    /\ got.judge_feedback = d.judge_feedback
    /\ got.revision_count = d.revision_count
    /\ got.is_valid = d.is_valid
    /\ got.meets_quality_threshold = d.meets_quality_threshold
    /\ got.validation = d.validation
    /\ got.parent_settings = d.parent_settings

Record(database, id) == get_story(database, id, "none").story

\* the record get_story returned for a saved story right after the save
RecordAsWritten(h) == _row_to_dict(InsertRow(h.story_data, h.id))

\* C12: after any sequence of storage operations, every story that was
\* saved and whose id has not been deleted still reads back, field by
\* field, as the record that was written.
C12_RecordsImmutable ==
    \A h \in saved : Record(db, h.id) = RecordAsWritten(h)

\* the second story has just been deleted, every kind of operation has had
\* its turn since the first was saved, and the first reads back as saved
C12_Witness ==
    /\ call.op = "delete_story"
    /\ call.story_id = 2
    /\ call.fault = "none"
    /\ db.seq = 2
    /\ Record(db, 2) = NoStory
    /\ \E h \in saved : h.id = 1 /\ SameFields(Record(db, 1), h.story_data)

\* C14: after any sequence of storage operations, failing ones included, no
\* connection opened by _get_connection is left open.
C14_ConnectionsClosed == db.open = 0

\* the record of the story a finished call saved
SavedRecord == Record(db, final_result.story_id)

\* C13: the record saved by generate_story_with_judge, read back with
\* get_story, carries the variety_config of the result.
C13_VarietyConfigPersisted ==
    (pc = "done" /\ final_result.story_id > 0) =>
        /\ "variety_config" \in DOMAIN SavedRecord
        /\ SavedRecord.variety_config = final_result.variety_config

(***************************************************************************)
(* main() (src/main.py) around generate_with_user_feedback                 *)
(* (src/orchestrator.py:120-149): the call of generate_story_with_judge is *)
(* the orchestrator's actions above, entered from Main and left at "done"  *)
(* or "raised".                                                            *)
(***************************************************************************)
\* main.py:43, in words
ExampleRequest == <<"alice", "friend", "cat">>

\* the lines typed at the first prompt
MainInputs == {<<>>, <<" ">>, <<"a", "dragon", "story">>}

\* main.py:41-43 with a request as typed
MainRequestAsTyped(user_input) == user_input

\* main.py:41-43: the request handed to the orchestrator
MainRequest(user_input) ==
    IF Strip(user_input) = <<>> THEN ExampleRequest ELSE user_input

\* StoryOrchestrator() as main builds it (orchestrator.py:18-24): storage
\* on, no parent settings, the loop settings taken from the configuration
MainConfigs ==
    {c \in OrchConfigs : c.enable_storage /\ c.max_revisions = 2}

\* what input() does at a prompt: a line, or EOFError at the end of input
InputLine(text) == [kind |-> "line", text |-> text]
InputEof == [kind |-> "eof", text |-> ""]
EOFError == Exc("EOFError", "EOF when reading a line")

FeedbackAnswers == {InputLine(t) : t \in {"no", "", "yes", " Yes ", "Y"}} \cup {InputEof}
RequestedChanges == {<<"add", "a", "moon">>}

\* .strip().lower() on the answers the model draws
StripLower(text) ==
    CASE text = " Yes " -> "yes"
      [] text = "Y" -> "y"
      [] OTHER -> text

\* orchestrator.py:137
WantsChanges(answer) == StripLower(answer.text) \in {"yes", "y"}

\* orchestrator.py:140: the request with the changes appended
ChangedRequest(user_req, changes) ==
    user_req \o <<".", "Please", "incorporate:">> \o changes

UserChangesContext(changes) == [kind |-> "user_changes", changes |-> changes]

\* orchestrator.py:144-147: the result after a revised result came back
ApplyUserFeedback(final, revised) ==
    IF Truthy(revised.is_valid)
    THEN [final EXCEPT !.story = revised.story, !.user_feedback_applied = TRUE]
    ELSE final

\* an except clause that catches the API's errors only
CatchesApiErrors(exc) == exc.type \in TransientTypes \cup {"APIError"}

\* main.py:74: "except Exception" catches every exception class but the
\* ones that derive from BaseException alone
CaughtByMain(exc) == exc.type \notin {"KeyboardInterrupt", "SystemExit", "GeneratorExit"}

\* main.py:27-43: the API key check, the orchestrator, the input line
Main ==
    /\ pc = "main"
    /\ \/ /\ call' = [op |-> "main", api_key |-> FALSE, user_input |-> <<>>,
                      enable_user_feedback |-> FALSE]
          /\ ret' = [kind |-> "no_api_key", text |-> "OPENAI_API_KEY not found"]
          /\ pc' = "main_returned"
          /\ UNCHANGED <<cfg, user_request>>
       \/ \E user_input \in MainInputs, enable_user_feedback \in BOOLEAN,
             c \in MainConfigs :
            /\ call' = [op |-> "main", api_key |-> TRUE, user_input |-> user_input,
                        enable_user_feedback |-> enable_user_feedback]
            /\ cfg' = c
            /\ user_request' = MainRequest(user_input)
            /\ pc' = "generate_initial"
            /\ UNCHANGED ret
    /\ UNCHANGED <<variety_config, result, story, revision_count, evaluation,
                   final_validation, final_result, trace, db, saved>>

\* orchestrator.py:126-149: generate_story_with_judge has returned; the
\* user is asked for changes when ORCHESTRATION_CONFIG allows it
AskForChanges ==
    /\ pc = "done"
    /\ call.op = "main"
    /\ \/ /\ ~call.enable_user_feedback
          /\ pc' = "feedback_returned"
          /\ UNCHANGED <<final_result, trace>>
       \/ /\ call.enable_user_feedback
          /\ \E answer \in FeedbackAnswers :
               IF answer.kind = "eof"
               THEN /\ pc' = "raised"
                    /\ trace' = [trace EXCEPT !.raised = EOFError]
                    /\ UNCHANGED final_result
               ELSE IF ~WantsChanges(answer)
               THEN /\ pc' = "feedback_returned"
                    /\ UNCHANGED <<final_result, trace>>
               ELSE \E changes \in RequestedChanges, env \in OrchGenEnvs :
                      \E generated \in {generate_story(
                                            ChangedRequest(user_request, changes),
                                            UserChangesContext(changes),
                                            None, cfg, env)} :
                         IF ~generated.ok
                         THEN /\ pc' = "raised"
                              /\ trace' = [trace EXCEPT !.raised = generated.exc]
                              /\ UNCHANGED final_result
                         ELSE /\ pc' = "feedback_returned"
                              /\ final_result' = ApplyUserFeedback(final_result,
                                                                   generated.val)
                              /\ trace' = [trace EXCEPT !.generator_calls = Count(@)]
    /\ UNCHANGED <<cfg, user_request, variety_config, result, story, revision_count,
                   evaluation, final_validation, db, saved, call, ret>>

\* main.py:49-72: the story and its metadata are printed
MainReport ==
    /\ pc = "feedback_returned"
    /\ pc' = "main_returned"
    /\ ret' = [kind |-> "story", text |-> final_result.story]
    /\ UNCHANGED <<cfg, user_request, variety_config, result, story, revision_count,
                   evaluation, final_validation, final_result, trace, db, saved, call>>

\* main.py:74-76: an exception of the try block
MainExcept ==
    /\ pc = "raised"
    /\ call.op = "main"
    /\ IF CaughtByMain(trace.raised)
       THEN /\ pc' = "main_returned"
            /\ ret' = [kind |-> "error", text |-> trace.raised.msg]
       ELSE /\ pc' = "main_propagated"
            /\ UNCHANGED ret
    /\ UNCHANGED <<cfg, user_request, variety_config, result, story, revision_count,
                   evaluation, final_validation, final_result, trace, db, saved, call>>

InitMain == StandBy("main")
NextMain ==
    \/ Main
    \/ Next
    \/ AskForChanges
    \/ MainReport
    \/ MainExcept
SpecMain == InitMain /\ [][NextMain]_vars

C19_ResultDescribesItsStory ==
    pc = "feedback_returned" =>
        /\ final_result.story = story
        /\ final_result.story_id > 0 =>
              Record(db, final_result.story_id).story = final_result.story

(***************************************************************************)
(* The configuration reported and the configuration used.                 *)
(***************************************************************************)

\* C21: the variety_config in the result of generate_story_with_judge is the
\* configuration the generator call that produced the returned story worked
\* with, whichever call that was (initial draft, safety-focused
\* regeneration, revision).
C21_ReportsConfigurationUsed ==
    pc = "done" => final_result.variety_config = trace.story_variety

(***************************************************************************)
(* The order of the steps of generate_story_with_judge.                    *)
(***************************************************************************)

InLoop == pc \in {"generate_initial", "generate_safety_focused", "evaluate", "revise"}

\* C22: a revision is requested only right after an evaluation of the
\* current draft that did not meet the threshold, one evaluation for each
\* request; the final validation and the final evaluation run once each,
\* after the loop, in this order and on the final story; save_story is
\* called at most once, after the final evaluation and only with storage
\* enabled.
C22_StepsInOrder ==
    /\ pc = "revise" =>
          /\ ~evaluation.meets_threshold
          /\ trace.evaluated_story = story
          /\ trace.loop_evaluations = trace.revisions_requested + 1
    /\ trace.revisions_requested <= trace.loop_evaluations
    /\ (InLoop \/ pc = "final_validation") =>
          /\ trace.final_validations = 0
          /\ trace.final_evaluations = 0
    /\ pc = "final_evaluation" =>
          /\ trace.final_validations = 1 /\ trace.validated_story = story
          /\ trace.final_evaluations = 0
    /\ pc \in {"store", "done"} =>
          /\ trace.final_validations = 1 /\ trace.validated_story = story
          /\ trace.final_evaluations = 1 /\ trace.judged_story = story
          /\ final_result.story = story
    /\ pc # "done" => trace.saves = 0
    /\ trace.saves <= 1
    /\ trace.saves = 1 => cfg.enable_storage /\ trace.final_evaluations = 1

\* a call that revised its draft, finished and saved the record
C22_Witness ==
    /\ pc = "done"
    /\ trace.revisions_requested >= 1
    /\ trace.revisions_adopted >= 1
    /\ trace.saves = 1

(***************************************************************************)
(* An evaluation that failed.                                              *)
(***************************************************************************)

\* the loop has just evaluated the story and decided what to do next
JustEvaluated ==
    \/ pc = "revise"
    \/ pc = "final_validation" /\ trace.exit \in {"accepted", "max_revisions"}

\* C23: an in-loop evaluation with verdict "ERROR" does not meet the
\* threshold and does not end the loop as an acceptance: like any evaluation
\* below the threshold it is followed by a revision request exactly when
\* revision budget remains; for an empty story the judge API is not called.
C23_ErrorIsRejection ==
    /\ (JustEvaluated /\ ~evaluation.meets_threshold) =>
          /\ trace.exit # "accepted"
          /\ pc = "revise" <=> RevisionsLeft(revision_count, cfg)
    /\ (JustEvaluated /\ evaluation.verdict = "ERROR") =>
          /\ ~evaluation.meets_threshold
          /\ IsBlank(trace.evaluated_story) => trace.judge_api_calls = 0

\* the judge API failed on a story and a revision is about to be requested
C23_Witness ==
    /\ pc = "revise"
    /\ evaluation.verdict = "ERROR"
    /\ ~IsBlank(story)
    /\ trace.judge_api_calls > 0

(***************************************************************************)
(* The evaluator's acceptance.                                             *)
(***************************************************************************)

\* C24: every result of evaluate_story has meets_threshold true exactly
\* when overall_score >= the minimum acceptance score; meets_threshold
\* implies verdict "ACCEPT"; the verdict is ACCEPT, REVISE or ERROR; and an
\* answer without a numeric scores.overall gives overall_score 0.0.
C24_MinimumScoreComparison ==
    call.op = "evaluate_story" =>
        /\ ret.ok
        /\ ret.val.meets_threshold <=> ret.val.overall_score >= call.min_score
        /\ ret.val.meets_threshold => ret.val.verdict = "ACCEPT"
        /\ ret.val.verdict \in {"ACCEPT", "REVISE", "ERROR"}
        /\ ~NumericOverall(call.carried) => ret.val.overall_score = 0

(***************************************************************************)
(* A save that fails.                                                      *)
(***************************************************************************)

\* C26: save_story returns a positive id when the record was written and 0
\* on every failure; generate_story_with_judge then returns the complete
\* result all the same, and the result has a story_id exactly when the
\* save returned an id > 0, and it is that id.
C26_FailedSaveKeepsResult ==
    (pc = "done" /\ trace.saves = 1) =>
        /\ trace.saved_id >= 0
        /\ trace.saved_id > 0 <=> trace.save_fault = "none"
        /\ final_result.story_id = trace.saved_id
        /\ final_result.story = story
        /\ final_result.user_request = user_request
        /\ final_result.variety_config = variety_config
        /\ final_result.revision_count = revision_count
        /\ final_result.validation = final_validation
        /\ final_result.parent_settings = cfg.parent_settings

\* the database was locked: a story is returned, without a story_id
C26_Witness ==
    /\ pc = "done"
    /\ trace.saves = 1
    /\ trace.save_fault = "locked"
    /\ trace.saved_id = 0
    /\ final_result.story_id = 0
    /\ ~IsBlank(final_result.story)

(***************************************************************************)
(* Record ids.                                                             *)
(***************************************************************************)

\* C27: on one database, every id a successful save_story returns is
\* strictly greater than every id returned before it, whether or not the
\* records of the earlier ids have been deleted since.
C27_IdsNeverReused ==
    \A i, j \in 1..Len(trace.issued) : i < j => trace.issued[i] < trace.issued[j]

\* a second save after the first record was deleted: it gets a new id
C27_Witness ==
    /\ call.op = "save_story"
    /\ ret.id = 2
    /\ trace.issued = <<1, 2>>
    /\ Len(db.rows) = 1

====
